---- MODULE Spec2Model ----
(***************************************************************************)
(* The spatial collision detection subsystem of draugrs_descent            *)
(* (src/utils/collision_handler.py): QuadTree, SpatialHashGrid,            *)
(* CollisionSystem and the narrow phase mask_collision, and the resolution *)
(* handlers with the objects they act on (src/objects,                     *)
(* src/scenes/game_scene.py), and the wave manager                         *)
(* (src/managers/wave_manager.py).                                         *)
(*                                                                         *)
(* Ten specifications:                                                     *)
(*   SpecIndex     one spatial index (a QuadTree or a SpatialHashGrid)     *)
(*                 driven directly through clear / insert / retrieve;      *)
(*   Spec          a CollisionSystem driven through update and the four    *)
(*                 check_* queries while the game's groups change;         *)
(*   SpecGame      the game frames (GameScene.update) with the game clock; *)
(*   SpecHandlers  the resolution handlers called directly;                *)
(*   SpecQueries   the queries of a CollisionSystem between the handlers;  *)
(*   SpecMask      the narrow phase mask_collision on two sprites;         *)
(*   SpecWindow    the handlers on a clock that outlasts a shield;         *)
(*   SpecVisual    images and rects that change after the mask was built;  *)
(*   SpecWave      the scene starting waves and updating the wave manager; *)
(*   SpecWaveCount get_enemy_count_for_wave for any wave number.           *)
(***************************************************************************)
EXTENDS Integers, Sequences, FiniteSets, TLC

VARIABLES
    sprites,            \* the live sprites: id -> [rect, mask, is_enemy_projectile, active]
    index_class,        \* SpecIndex: "QuadTree" | "SpatialHashGrid"
    index,              \* SpecIndex: the spatial index object
    ninserts,           \* SpecIndex: insert() calls since the last clear()
    retrieved,          \* SpecIndex: the last retrieve() call and its result
    raised,             \* SpecIndex: the exception the last call ended in, or "none"
    algorithm,          \* CollisionSystem.algorithm
    spatial_structure,  \* CollisionSystem.spatial_structure
    player,             \* the id of the player sprite
    invincible,         \* player.invincible
    projectile_group,   \* pygame groups, in insertion order
    enemy_group,
    powerup_group,
    updated,            \* CollisionSystem.update() has been called
    last_update,        \* what the last update() call found and dropped (history)
    hits,               \* the last check_* query and its result
    clock,              \* pygame.time.get_ticks()
    current_health,     \* player.current_health
    invincible_timer,   \* player.invincible_timer
    invincible_duration,\* player.invincible_duration
    handled,            \* the last handler call, its result and the state before it (history)
    damage_log,         \* the <<projectile, enemy>> damage applications so far (history)
    ended,              \* the powerups collected or expired so far (history)
    death_log,          \* the enemies handle_enemy_death ran for, in order (history)
    hit_log,            \* the times of the hits that lowered current_health (history)
    window,             \* what made the player invincible: "none", "damage", "shield" (history)
    wave_manager        \* the WaveManager, and the enemies it spawned in its wave (history)

vars == <<sprites, index_class, index, ninserts, retrieved, raised, algorithm,
          spatial_structure, player, invincible, projectile_group, enemy_group,
          powerup_group, updated, last_update, hits, clock, current_health,
          invincible_timer, invincible_duration, handled, damage_log, ended,
          death_log, hit_log, window, wave_manager>>

indexVars == <<index_class, index, ninserts, retrieved, raised>>
systemVars == <<algorithm, spatial_structure, player, invincible, projectile_group,
                enemy_group, powerup_group, updated, last_update, hits>>
gameVars == <<clock, current_health, invincible_timer, invincible_duration, handled,
              damage_log, ended, death_log, hit_log, window, wave_manager>>

-----------------------------------------------------------------------------
(* Bounds of the model *)

MaxInserts == 3         \* SpecIndex: insert() calls between two clear()
MaxSprites == 2         \* Spec: sprites alive at once, the player and a horde apart

-----------------------------------------------------------------------------
(* Helpers on sequences and Python integer arithmetic *)

Range(s) == {s[i] : i \in 1..Len(s)}

RemoveAt(s, i) == SubSeq(s, 1, i - 1) \o SubSeq(s, i + 1, Len(s))

Count(s, e) == Cardinality({i \in 1..Len(s) : s[i] = e})

NoDuplicates(s) == \A i, j \in 1..Len(s) : s[i] = s[j] => i = j

Max(a, b) == IF a >= b THEN a ELSE b

\* Python's a // b on integers, b # 0: the floor of the quotient, for either sign of b.
PyFloorDiv(a, b) ==
    LET FloorPos(n, d) == IF n >= 0 THEN n \div d ELSE -(((-n) + d - 1) \div d)
    IN  IF b > 0 THEN FloorPos(a, b) ELSE FloorPos(-a, -b)

-----------------------------------------------------------------------------
(* pygame.Rect and pygame.mask, as far as the collision code uses them *)

Rect(x, y, w, h) == [x |-> x, y |-> y, w |-> w, h |-> h]

\* pygame.Rect.colliderect: the rects share area; a zero-sized rect collides with nothing.
ColliderRect(a, b) ==
    /\ a.w > 0 /\ a.h > 0 /\ b.w > 0 /\ b.h > 0
    /\ a.x < b.x + b.w /\ b.x < a.x + a.w
    /\ a.y < b.y + b.h /\ b.y < a.y + a.h

\* pygame.mask.from_surface of a fully opaque w x h image.
FullMask(w, h) == (0..(w - 1)) \X (0..(h - 1))

\* A new sprite: image and rect of the same size, mask built from the image.
Sprite(rect, mask, is_enemy_projectile) ==
    [rect |-> rect, mask |-> mask, is_enemy_projectile |-> is_enemy_projectile,
     active |-> TRUE]

\* hasattr(sprite, "mask") / hasattr(sprite, "image"); an attribute that is None
\* takes the same branches as a missing one.
HasMask(sprite) == "mask" \in DOMAIN sprite
HasImage(sprite) == "image" \in DOMAIN sprite

\* pygame.mask.from_surface(image): the pixels whose alpha is above the threshold.
MaskThreshold == 127
FromSurface(image) == {p \in DOMAIN image : image[p] > MaskThreshold}

\* The mask mask_collision works with: the sprite's own, or one made from its image.
MaskOf(sprite) == IF HasMask(sprite) THEN sprite.mask ELSE FromSurface(sprite.image)

\* sprite.mask = pygame.mask.from_surface(sprite.image) for a sprite without mask.
WithMask(sprite) ==
    IF HasMask(sprite) THEN sprite
    ELSE [f \in (DOMAIN sprite) \cup {"mask"} |->
             IF f = "mask" THEN FromSurface(sprite.image) ELSE sprite[f]]

\* sprite.image of a sprite that has neither mask nor image raises AttributeError.
NoVisual(sprite) == ~HasMask(sprite) /\ ~HasImage(sprite)
MaskCollisionRaises(sprite1, sprite2) == NoVisual(sprite1) \/ NoVisual(sprite2)

\* The narrow phase with sprite2's mask placed at sprite2's absolute position
\* instead of its position relative to sprite1.
MaskCollisionAbsoluteOffset(sprite1, sprite2) ==
    \E p \in MaskOf(sprite2) :
        <<p[1] + sprite2.rect.x, p[2] + sprite2.rect.y>> \in MaskOf(sprite1)

\* mask_collision: sprite1.mask.overlap(sprite2.mask, offset) is not None, i.e. some
\* pixel is opaque in both masks with sprite2's mask shifted by offset.
mask_collision(sprite1, sprite2) ==
    LET ox == sprite2.rect.x - sprite1.rect.x
        oy == sprite2.rect.y - sprite1.rect.y
    IN  \E p \in MaskOf(sprite2) : <<p[1] + ox, p[2] + oy>> \in MaskOf(sprite1)

-----------------------------------------------------------------------------
(* QuadTree *)

QuadTreeNew(bounds, max_objects, max_levels, level) ==
    [bounds |-> bounds, max_objects |-> max_objects, max_levels |-> max_levels,
     level |-> level, objects |-> <<>>, nodes |-> <<>>, is_divided |-> FALSE]

QuadTreeClearKeepsObjects(t) ==
    [t EXCEPT !.is_divided = FALSE]

\* clear(): the objects and the child nodes are dropped.
QuadTreeClear(t) ==
    [t EXCEPT !.objects = <<>>, !.nodes = <<>>, !.is_divided = FALSE]

\* divide(): four children of width // 2 by height // 2, one level deeper.
QuadTreeDivide(t) ==
    LET x == t.bounds.x
        y == t.bounds.y
        sub_width == PyFloorDiv(t.bounds.w, 2)
        sub_height == PyFloorDiv(t.bounds.h, 2)
        Child(cx, cy) == QuadTreeNew(Rect(cx, cy, sub_width, sub_height),
                                     t.max_objects, t.max_levels, t.level + 1)
    IN  [t EXCEPT !.nodes = @ \o << Child(x, y), Child(x + sub_width, y),
                                    Child(x, y + sub_height),
                                    Child(x + sub_width, y + sub_height) >>,
                  !.is_divided = TRUE]

\* get_index(): the quadrant 0..3 the rect lies strictly inside, or -1. The
\* midpoints are bounds.x + width / 2 (a float): both sides are doubled here.
QuadTreeGetIndex(t, rect) ==
    LET v_midpoint2 == 2 * t.bounds.x + t.bounds.w
        h_midpoint2 == 2 * t.bounds.y + t.bounds.h
        top_quadrant == 2 * rect.y < h_midpoint2 /\ 2 * (rect.y + rect.h) < h_midpoint2
        bottom_quadrant == 2 * rect.y > h_midpoint2
    IN  IF 2 * rect.x < v_midpoint2 /\ 2 * (rect.x + rect.w) < v_midpoint2
        THEN IF top_quadrant THEN 0 ELSE IF bottom_quadrant THEN 2 ELSE -1
        ELSE IF 2 * rect.x > v_midpoint2
             THEN IF top_quadrant THEN 1 ELSE IF bottom_quadrant THEN 3 ELSE -1
             ELSE -1

RECURSIVE QuadTreeInsert(_, _, _)
RECURSIVE QuadTreeRedistribute(_, _, _)

\* insert() without the test self.level < self.max_levels.
QuadTreeInsertIgnoringMaxLevels(t, s, spr) ==
    LET index_ == QuadTreeGetIndex(t, spr[s].rect)
    IN  IF t.is_divided /\ index_ # -1
        THEN [t EXCEPT !.nodes[index_ + 1] = QuadTreeInsert(@, s, spr)]
        ELSE LET t1 == [t EXCEPT !.objects = Append(@, s)]
             IN  IF ~t1.is_divided /\ Len(t1.objects) > t1.max_objects
                 THEN QuadTreeRedistribute(QuadTreeDivide(t1), 1, spr)
                 ELSE t1

\* insert(): into the child the sprite fits in when the node is divided, else
\* into this node, which divides once it holds more than max_objects.
QuadTreeInsert(t, s, spr) ==
    LET index_ == QuadTreeGetIndex(t, spr[s].rect)
    IN  IF t.is_divided /\ index_ # -1
        THEN [t EXCEPT !.nodes[index_ + 1] = QuadTreeInsert(@, s, spr)]
        ELSE LET t1 == [t EXCEPT !.objects = Append(@, s)]
             IN  IF ~t1.is_divided /\ Len(t1.objects) > t1.max_objects
                    /\ t1.level < t1.max_levels
                 THEN QuadTreeRedistribute(QuadTreeDivide(t1), 1, spr)
                 ELSE t1

\* The while loop of insert() moving nothing: every object stays in the node.
QuadTreeRedistributeNothing(t, i, spr) == t

\* the while loop of insert(): objects[i] moves to its child or stays (i is 1-based).
QuadTreeRedistribute(t, i, spr) ==
    IF i > Len(t.objects)
    THEN t
    ELSE LET index_ == QuadTreeGetIndex(t, spr[t.objects[i]].rect)
         IN  IF index_ # -1
             THEN QuadTreeRedistribute(
                      [t EXCEPT !.objects = RemoveAt(@, i),
                                !.nodes[index_ + 1] = QuadTreeInsert(@, t.objects[i], spr)],
                      i, spr)
             ELSE QuadTreeRedistribute(t, i + 1, spr)

RECURSIVE QuadTreeRetrieve(_, _, _)
RECURSIVE QuadTreeRetrieveNodes(_, _, _, _)

\* retrieve(potential_collisions, sprite): the list after the call.
QuadTreeRetrieve(t, potential_collisions, rect) ==
    LET index_ == QuadTreeGetIndex(t, rect)
        below == IF index_ # -1 /\ t.is_divided
                 THEN QuadTreeRetrieve(t.nodes[index_ + 1], potential_collisions, rect)
                 ELSE IF t.is_divided
                      THEN QuadTreeRetrieveNodes(t.nodes, 1, potential_collisions, rect)
                      ELSE potential_collisions
    IN  below \o t.objects

\* the for loop of retrieve(): every child whose bounds collide with the rect.
QuadTreeRetrieveNodes(nodes, i, potential_collisions, rect) ==
    IF i > Len(nodes)
    THEN potential_collisions
    ELSE QuadTreeRetrieveNodes(nodes, i + 1,
             IF ColliderRect(nodes[i].bounds, rect)
             THEN QuadTreeRetrieve(nodes[i], potential_collisions, rect)
             ELSE potential_collisions,
             rect)

\* Every entry stored in the tree, node by node.
RECURSIVE QuadTreeContents(_)
RECURSIVE QuadTreeContentsOf(_, _)
QuadTreeContents(t) == t.objects \o QuadTreeContentsOf(t.nodes, 1)
QuadTreeContentsOf(nodes, i) ==
    IF i > Len(nodes) THEN <<>>
    ELSE QuadTreeContents(nodes[i]) \o QuadTreeContentsOf(nodes, i + 1)

-----------------------------------------------------------------------------
(* SpatialHashGrid *)

SpatialHashGridNew(width, height, cell_size) ==
    [cell_size |-> cell_size, width |-> width, height |-> height, grid |-> <<>>]

SpatialHashGridClear(g) == [g EXCEPT !.grid = <<>>]

\* _get_cells_for_rect(): the keys (x, y), x outermost, from the cell of
\* (left, top) to the cell of (right, bottom), both included.
SpatialHashGridCellsWithoutLastCell(g, rect) ==
    LET start_x == PyFloorDiv(rect.x, g.cell_size)
        end_x == PyFloorDiv(rect.x + rect.w, g.cell_size)
        start_y == PyFloorDiv(rect.y, g.cell_size)
        end_y == PyFloorDiv(rect.y + rect.h, g.cell_size)
        nx == Max(0, end_x - start_x)
        ny == Max(0, end_y - start_y)
    IN  [i \in 1..(nx * ny) |->
            <<start_x + ((i - 1) \div ny), start_y + ((i - 1) % ny)>>]

SpatialHashGridCells(g, rect) ==
    LET start_x == PyFloorDiv(rect.x, g.cell_size)
        end_x == PyFloorDiv(rect.x + rect.w, g.cell_size)
        start_y == PyFloorDiv(rect.y, g.cell_size)
        end_y == PyFloorDiv(rect.y + rect.h, g.cell_size)
        nx == Max(0, end_x + 1 - start_x)
        ny == Max(0, end_y + 1 - start_y)
    IN  [i \in 1..(nx * ny) |->
            <<start_x + ((i - 1) \div ny), start_y + ((i - 1) % ny)>>]

\* insert(): the sprite is appended to the list of every cell it occupies.
SpatialHashGridInsert(g, s, spr) ==
    LET cell_keys == Range(SpatialHashGridCells(g, spr[s].rect))
    IN  [g EXCEPT !.grid =
            [key \in (DOMAIN g.grid) \cup cell_keys |->
                IF key \in cell_keys
                THEN Append(IF key \in DOMAIN g.grid THEN g.grid[key] ELSE <<>>, s)
                ELSE g.grid[key]]]

RECURSIVE AddAllBut(_, _, _, _)
\* the inner loop of retrieve(): a set.add of every sprite of the cell but s.
AddAllBut(found, cell, i, s) ==
    IF i > Len(cell) THEN found
    ELSE AddAllBut(IF cell[i] # s /\ cell[i] \notin Range(found)
                   THEN Append(found, cell[i]) ELSE found,
                   cell, i + 1, s)

RECURSIVE SpatialHashGridCollect(_, _, _, _, _)
SpatialHashGridCollect(g, cell_keys, i, found, s) ==
    IF i > Len(cell_keys) THEN found
    ELSE SpatialHashGridCollect(g, cell_keys, i + 1,
             IF cell_keys[i] \in DOMAIN g.grid
             THEN AddAllBut(found, g.grid[cell_keys[i]], 1, s)
             ELSE found,
             s)

\* retrieve(): list(set) of the sprites of the cells s occupies, s left out. The
\* order of list(set) is unspecified: the order of first encounter stands for it.
SpatialHashGridRetrieve(g, s, spr) ==
    SpatialHashGridCollect(g, SpatialHashGridCells(g, spr[s].rect), 1, <<>>, s)

-----------------------------------------------------------------------------
(* Sprites *)

NoSprites == <<>>

SpriteId(category, k) == <<category, k>>

\* The id of the next sprite of a category: the first one not alive.
FreshId(category, spr) ==
    SpriteId(category,
             CHOOSE k \in 1..(Cardinality(DOMAIN spr) + 1) :
                 /\ SpriteId(category, k) \notin DOMAIN spr
                 /\ \A j \in 1..(k - 1) : SpriteId(category, j) \in DOMAIN spr)

NoCall == [call |-> "none", sprite |-> SpriteId("none", 0), result |-> <<>>]

NoUpdate == [dropped |-> {}, was_divided |-> FALSE]

\* No handler was called yet.
NoHandled == [call |-> "none"]

\* Player.__init__: max_health and invincibility_duration (the config defaults).
PlayerMaxHealth == 100
InvincibilityDuration == 1000

\* WaveManager.__init__: no wave yet.  spawned counts the enemies _spawn_enemy
\* handed to the scene since the last start_next_wave.
WaveManagerNew ==
    [current_wave |-> 0, wave_in_progress |-> FALSE, enemies_remaining |-> 0,
     last_enemy_spawn_time |-> 0, current_wave_start_time |-> 0, spawned |-> 0]

\* The clock at start-up, the new player, the new wave manager and the empty
\* histories.
GameIdle ==
    /\ clock = 0
    /\ current_health = PlayerMaxHealth
    /\ invincible_timer = 0
    /\ invincible_duration = InvincibilityDuration
    /\ handled = NoHandled
    /\ damage_log = {}
    /\ ended = {}
    /\ death_log = <<>>
    /\ hit_log = <<>>
    /\ window = "none"
    /\ wave_manager = WaveManagerNew

-----------------------------------------------------------------------------
(* SpecIndex: a spatial index used directly *)

\* Constructor arguments tried, the invalid ones (<= 0) included.
TreeBoundsArgs == {Rect(0, 0, 4, 4), Rect(0, 0, 5, 5)}
MaxObjectsArgs == {0, 1, 2}
MaxLevelsArgs == {0, 1, 2}
CellSizeArgs == {-1, 0, 1, 2, 3}

\* Rects of the sprites inserted: inside, across and outside the tree bounds,
\* negative coordinates included.
IndexRects ==
    { Rect(4, 0, 1, 2), Rect(4, 1, 1, 2), Rect(-1, -1, 2, 2),
      Rect(0, 0, 1, 1), Rect(1, 1, 2, 2), Rect(3, 3, 1, 1) }

Insert(class, idx, s, spr) ==
    IF class = "QuadTree" THEN QuadTreeInsert(idx, s, spr)
    ELSE SpatialHashGridInsert(idx, s, spr)

Retrieve(class, idx, s, spr) ==
    IF class = "QuadTree" THEN QuadTreeRetrieve(idx, <<>>, spr[s].rect)
    ELSE SpatialHashGridRetrieve(idx, s, spr)

Clear(class, idx) ==
    IF class = "QuadTree" THEN QuadTreeClear(idx) ELSE SpatialHashGridClear(idx)

\* The sprites the index holds.
Indexed(class, idx) ==
    IF class = "QuadTree" THEN Range(QuadTreeContents(idx))
    ELSE UNION {Range(idx.grid[key]) : key \in DOMAIN idx.grid}

\* x // self.cell_size raises ZeroDivisionError when cell_size is 0.
Raises(class, idx) == class = "SpatialHashGrid" /\ idx.cell_size = 0

ValidConfig(class, idx) ==
    IF class = "QuadTree" THEN idx.max_objects > 0 /\ idx.max_levels > 0
    ELSE idx.cell_size > 0

SystemIdle ==
    /\ algorithm = "spatial_hash"
    /\ spatial_structure = SpatialHashGridNew(0, 0, 1)
    /\ player = SpriteId("none", 0)
    /\ invincible = FALSE
    /\ projectile_group = <<>>
    /\ enemy_group = <<>>
    /\ powerup_group = <<>>
    /\ updated = FALSE
    /\ last_update = NoUpdate
    /\ hits = NoCall

InitIndex ==
    /\ sprites = NoSprites
    /\ index_class \in {"QuadTree", "SpatialHashGrid"}
    /\ index \in IF index_class = "QuadTree"
                 THEN {QuadTreeNew(b, mo, ml, 0) :
                          b \in TreeBoundsArgs, mo \in MaxObjectsArgs, ml \in MaxLevelsArgs}
                 ELSE {SpatialHashGridNew(4, 4, cs) : cs \in CellSizeArgs}
    /\ ninserts = 0
    /\ retrieved = NoCall
    /\ raised = "none"
    /\ SystemIdle
    /\ GameIdle

\* index.insert(s), s either a new sprite or one inserted before.
IndexInsertCall(s, spr) ==
    /\ ninserts < MaxInserts
    /\ retrieved' = NoCall
    /\ IF Raises(index_class, index)
       THEN /\ raised' = "ZeroDivisionError"
            /\ UNCHANGED <<sprites, index, ninserts>>
       ELSE /\ raised' = "none"
            /\ sprites' = spr
            /\ index' = Insert(index_class, index, s, spr)
            /\ ninserts' = ninserts + 1
    /\ UNCHANGED <<index_class, systemVars, gameVars>>

IndexInsertNew ==
    \E r \in IndexRects :
        LET s == FreshId("sprite", sprites)
        IN  IndexInsertCall(s, sprites @@ (s :> Sprite(r, FullMask(r.w, r.h), FALSE)))

IndexInsertAgain ==
    \E s \in DOMAIN sprites : IndexInsertCall(s, sprites)

\* index.clear(); the sprites of the frame are dropped with it.
IndexClear ==
    /\ index' = Clear(index_class, index)
    /\ sprites' = NoSprites
    /\ ninserts' = 0
    /\ retrieved' = NoCall
    /\ raised' = "none"
    /\ UNCHANGED <<index_class, systemVars, gameVars>>

\* index.retrieve(s) for a sprite of the frame.
IndexRetrieve ==
    \E s \in DOMAIN sprites :
        /\ IF Raises(index_class, index)
           THEN /\ raised' = "ZeroDivisionError"
                /\ retrieved' = NoCall
           ELSE /\ raised' = "none"
                /\ retrieved' = [call |-> "retrieve", sprite |-> s,
                                 result |-> Retrieve(index_class, index, s, sprites)]
        /\ UNCHANGED <<sprites, index_class, index, ninserts, systemVars, gameVars>>

NextIndex == IndexInsertNew \/ IndexInsertAgain \/ IndexClear \/ IndexRetrieve

SpecIndex == InitIndex /\ [][NextIndex]_vars

-----------------------------------------------------------------------------
(* CollisionSystem *)

QUADTREE == "quadtree"
SPATIAL_HASH == "spatial_hash"

\* The defaults of QuadTree.__init__, which CollisionSystem.__init__ relies on.
DefaultMaxObjects == 10
DefaultMaxLevels == 4

\* CollisionSystem.__init__: the spatial structure of the algorithm chosen.
CollisionSystemStructure(alg, screen_width, screen_height, cell_size) ==
    IF alg = QUADTREE
    THEN QuadTreeNew(Rect(0, 0, screen_width, screen_height),
                     DefaultMaxObjects, DefaultMaxLevels, 0)
    ELSE SpatialHashGridNew(screen_width, screen_height, cell_size)

ClassOf(alg) == IF alg = QUADTREE THEN "QuadTree" ELSE "SpatialHashGrid"

RECURSIVE InsertAll(_, _, _, _, _)
\* for sprite in group: self.spatial_structure.insert(sprite)
InsertAll(alg, structure, group, i, spr) ==
    IF i > Len(group) THEN structure
    ELSE InsertAll(alg, Insert(ClassOf(alg), structure, group[i], spr), group, i + 1, spr)

\* update(): clear, then insert the projectiles, the enemies, the powerups and
\* the player.
Update(alg, structure, projectiles, enemies, plr, powerups, spr) ==
    LET s0 == Clear(ClassOf(alg), structure)
        s1 == InsertAll(alg, s0, projectiles, 1, spr)
        s2 == InsertAll(alg, s1, enemies, 1, spr)
        s3 == InsertAll(alg, s2, powerups, 1, spr)
    IN  Insert(ClassOf(alg), s3, plr, spr)

\* A broad phase that ignores the index: every sprite of the group is a candidate.
BruteForce(alg, structure, s, group, spr) == group

\* The broad phase of every check_*: retrieve(sprite) filtered to a group.
Potential(alg, structure, s, group, spr) ==
    SelectSeq(Retrieve(ClassOf(alg), structure, s, spr), LAMBDA o : o \in Range(group))

RECURSIVE ProjectileEnemyHits(_, _, _, _, _, _)
\* the loop of check_projectile_enemy_collisions over the player projectiles: the
\* dict as the sequence of its items <<projectile, enemies_hit>>.
ProjectileEnemyHits(alg, structure, player_projectiles, i, enemies, spr) ==
    IF i > Len(player_projectiles) THEN <<>>
    ELSE LET projectile == player_projectiles[i]
             potential_enemies == Potential(alg, structure, projectile, enemies, spr)
             enemies_hit == SelectSeq(potential_enemies,
                                LAMBDA e : mask_collision(spr[projectile], spr[e]))
         IN  (IF enemies_hit # <<>> THEN << <<projectile, enemies_hit>> >> ELSE <<>>)
                 \o ProjectileEnemyHits(alg, structure, player_projectiles, i + 1, enemies, spr)

CheckProjectileEnemyAnyProjectile(alg, structure, projectiles, enemies, spr) ==
    ProjectileEnemyHits(alg, structure, projectiles, 1, enemies, spr)

check_projectile_enemy_collisions(alg, structure, projectiles, enemies, spr) ==
    LET player_projectiles == SelectSeq(projectiles, LAMBDA p : ~spr[p].is_enemy_projectile)
    IN  ProjectileEnemyHits(alg, structure, player_projectiles, 1, enemies, spr)

\* check_enemy_projectile_player_collision without the narrow phase.
CheckEnemyProjectilePlayerBroadPhaseOnly(alg, structure, plr, inv, projectiles, spr) ==
    IF inv THEN <<>>
    ELSE Potential(alg, structure, plr,
                   SelectSeq(projectiles, LAMBDA p : spr[p].is_enemy_projectile), spr)

check_enemy_projectile_player_collision(alg, structure, plr, inv, projectiles, spr) ==
    IF inv THEN <<>>
    ELSE LET enemy_projectiles == SelectSeq(projectiles, LAMBDA p : spr[p].is_enemy_projectile)
             potential_projectiles == Potential(alg, structure, plr, enemy_projectiles, spr)
         IN  SelectSeq(potential_projectiles, LAMBDA p : mask_collision(spr[plr], spr[p]))

\* check_player_enemy_collisions without the test of player.invincible.
CheckPlayerEnemyIgnoringInvincible(alg, structure, plr, inv, enemies, spr) ==
    SelectSeq(Potential(alg, structure, plr, enemies, spr),
              LAMBDA e : mask_collision(spr[plr], spr[e]))

check_player_enemy_collisions(alg, structure, plr, inv, enemies, spr) ==
    IF inv THEN <<>>
    ELSE SelectSeq(Potential(alg, structure, plr, enemies, spr),
                   LAMBDA e : mask_collision(spr[plr], spr[e]))

\* check_player_powerup_collisions without the test of powerup.active.
CheckPlayerPowerupIgnoringActive(alg, structure, plr, powerups, spr) ==
    SelectSeq(Potential(alg, structure, plr, powerups, spr),
              LAMBDA w : mask_collision(spr[plr], spr[w]))

check_player_powerup_collisions(alg, structure, plr, powerups, spr) ==
    SelectSeq(Potential(alg, structure, plr, powerups, spr),
              LAMBDA w : mask_collision(spr[plr], spr[w]) /\ spr[w].active)

-----------------------------------------------------------------------------
(* Spec: a CollisionSystem and the game's groups *)

\* Constructor arguments tried.
ScreenArgs == {<<4, 4>>, <<5, 5>>}
SystemCellSize == 2

\* Where the sprites of each kind appear: inside, on the edge of and outside the screen.
PlayerRects == {Rect(0, 0, 2, 2), Rect(4, 1, 1, 2)}
ProjectileRects == {Rect(0, 0, 1, 1), Rect(4, 1, 1, 2)}
EnemyRects == {Rect(0, 0, 1, 1), Rect(4, 0, 1, 2)}
HordeRects == {Rect(0, 0, 1, 1)}
PowerupRects == {Rect(0, 1, 2, 1), Rect(4, 2, 1, 1)}

\* The opaque pixels of a powerup image: a shape that does not fill its rect.
PowerupMask(w, h) == {<<w - 1, h - 1>>}

\* Enemies that together with the player fill the root node of the quadtree.
HordeSize == DefaultMaxObjects - 1

PlayerId == SpriteId("player", 1)
HordeIds == [k \in 1..HordeSize |-> SpriteId("horde", k)]
Alive(category) == {s \in DOMAIN sprites : s[1] = category}

IndexIdle ==
    /\ index_class = "QuadTree"
    /\ index = QuadTreeNew(Rect(0, 0, 0, 0), 1, 1, 0)
    /\ ninserts = 0
    /\ retrieved = NoCall
    /\ raised = "none"

Init ==
    /\ algorithm \in {QUADTREE, SPATIAL_HASH}
    /\ \E screen \in ScreenArgs :
           spatial_structure =
               CollisionSystemStructure(algorithm, screen[1], screen[2], SystemCellSize)
    /\ player = PlayerId
    /\ \E r \in PlayerRects :
           sprites = (PlayerId :> Sprite(r, FullMask(r.w, r.h), FALSE))
    /\ invincible = FALSE
    /\ projectile_group = <<>>
    /\ enemy_group = <<>>
    /\ powerup_group = <<>>
    /\ updated = FALSE
    /\ last_update = NoUpdate
    /\ hits = NoCall
    /\ IndexIdle
    /\ GameIdle

\* History of an update() call: the sprites the index held that are not passed
\* to the call, and whether the quadtree it clears had subdivided.
Found(alg, structure, projectiles, enemies, plr, powerups) ==
    [dropped |-> Indexed(ClassOf(alg), structure)
                     \ (Range(projectiles) \cup Range(enemies) \cup Range(powerups) \cup {plr}),
     was_divided |-> alg = QUADTREE /\ structure.is_divided]

\* The groups and sprites become (projectiles, enemies, powerups, spr); once the
\* game loop runs, every change of the sprites is followed by update() before
\* the next query (GameScene.update).
Frame(projectiles, enemies, powerups, spr) ==
    /\ sprites' = spr
    /\ projectile_group' = projectiles
    /\ enemy_group' = enemies
    /\ powerup_group' = powerups
    /\ spatial_structure' =
           IF updated
           THEN Update(algorithm, spatial_structure, projectiles, enemies, player,
                       powerups, spr)
           ELSE spatial_structure
    /\ last_update' =
           IF updated
           THEN Found(algorithm, spatial_structure, projectiles, enemies, player, powerups)
           ELSE last_update
    /\ hits' = NoCall
    /\ UNCHANGED <<algorithm, player, invincible, updated, indexVars, gameVars>>

Without(group, gone) == SelectSeq(group, LAMBDA s : s \notin gone)

Restrict(spr, gone) == [s \in (DOMAIN spr) \ gone |-> spr[s]]

NonHorde == (DOMAIN sprites) \ ({PlayerId} \cup Range(HordeIds))

SpawnProjectile ==
    \E r \in ProjectileRects, is_enemy_projectile \in BOOLEAN :
        LET s == FreshId("projectile", sprites)
        IN  /\ Cardinality(NonHorde) < MaxSprites
            /\ Frame(Append(projectile_group, s), enemy_group, powerup_group,
                     sprites @@ (s :> Sprite(r, FullMask(r.w, r.h), is_enemy_projectile)))

SpawnEnemy ==
    \E r \in EnemyRects :
        LET s == FreshId("enemy", sprites)
        IN  /\ Cardinality(NonHorde) < MaxSprites
            /\ Frame(projectile_group, Append(enemy_group, s), powerup_group,
                     sprites @@ (s :> Sprite(r, FullMask(r.w, r.h), FALSE)))

\* A wave of HordeSize enemies on one spot.
SpawnHorde ==
    \E r \in HordeRects :
        /\ Alive("horde") = {}
        /\ Frame(projectile_group, enemy_group \o HordeIds, powerup_group,
                 sprites @@ [s \in Range(HordeIds) |-> Sprite(r, FullMask(r.w, r.h), FALSE)])

SpawnPowerup ==
    \E r \in PowerupRects :
        LET s == FreshId("powerup", sprites)
        IN  /\ Cardinality(NonHorde) < MaxSprites
            /\ Frame(projectile_group, enemy_group, Append(powerup_group, s),
                     sprites @@ (s :> Sprite(r, PowerupMask(r.w, r.h), FALSE)))

MovePlayer ==
    \E r \in PlayerRects :
        /\ r # sprites[PlayerId].rect
        /\ Frame(projectile_group, enemy_group, powerup_group,
                 [sprites EXCEPT ![PlayerId] = Sprite(r, FullMask(r.w, r.h), FALSE)])

\* sprite.kill(): the sprite leaves its groups. The sprite killed is the newest
\* of its kind, which keeps the ids of the others in place.
Kill ==
    \E category \in {"projectile", "enemy", "powerup"} :
        LET s == SpriteId(category, Cardinality(Alive(category)))
        IN  /\ Alive(category) # {}
            /\ Frame(Without(projectile_group, {s}), Without(enemy_group, {s}),
                     Without(powerup_group, {s}), Restrict(sprites, {s}))

KillHorde ==
    /\ Alive("horde") # {}
    /\ Frame(projectile_group, Without(enemy_group, Range(HordeIds)), powerup_group,
             Restrict(sprites, Range(HordeIds)))

\* collision_system.update(projectile_group, enemy_group, player, powerup_group)
UpdateCall ==
    /\ spatial_structure' = Update(algorithm, spatial_structure, projectile_group,
                                   enemy_group, player, powerup_group, sprites)
    /\ updated' = TRUE
    /\ last_update' = Found(algorithm, spatial_structure, projectile_group, enemy_group,
                            player, powerup_group)
    /\ hits' = NoCall
    /\ handled' = NoHandled
    /\ UNCHANGED <<sprites, algorithm, player, invincible, projectile_group, enemy_group,
                   powerup_group, indexVars, clock, current_health, invincible_timer,
                   invincible_duration, damage_log, ended, death_log, hit_log,
                   window, wave_manager>>

\* A query that empties powerup_group.
QueryEmptyingPowerups(call, result) ==
    /\ hits' = [call |-> call, sprite |-> player, result |-> result]
    /\ handled' = NoHandled
    /\ powerup_group' = <<>>
    /\ UNCHANGED <<sprites, algorithm, spatial_structure, player, invincible,
                   projectile_group, enemy_group, updated, last_update,
                   indexVars, clock, current_health, invincible_timer,
                   invincible_duration, damage_log, ended, death_log, hit_log,
                   window, wave_manager>>

Query(call, result) ==
    /\ hits' = [call |-> call, sprite |-> player, result |-> result]
    /\ handled' = NoHandled
    /\ UNCHANGED <<sprites, algorithm, spatial_structure, player, invincible,
                   projectile_group, enemy_group, powerup_group, updated, last_update,
                   indexVars, clock, current_health, invincible_timer,
                   invincible_duration, damage_log, ended, death_log, hit_log,
                   window, wave_manager>>

CheckProjectileEnemy ==
    Query("check_projectile_enemy_collisions",
          check_projectile_enemy_collisions(algorithm, spatial_structure,
                                            projectile_group, enemy_group, sprites))

CheckEnemyProjectilePlayer ==
    Query("check_enemy_projectile_player_collision",
          check_enemy_projectile_player_collision(algorithm, spatial_structure, player,
                                                  invincible, projectile_group, sprites))

CheckPlayerEnemy ==
    Query("check_player_enemy_collisions",
          check_player_enemy_collisions(algorithm, spatial_structure, player, invincible,
                                        enemy_group, sprites))

CheckPlayerPowerup ==
    Query("check_player_powerup_collisions",
          check_player_powerup_collisions(algorithm, spatial_structure, player,
                                          powerup_group, sprites))

Next ==
    \/ SpawnProjectile \/ SpawnEnemy \/ SpawnHorde \/ SpawnPowerup \/ MovePlayer
    \/ Kill \/ KillHorde \/ UpdateCall
    \/ CheckProjectileEnemy \/ CheckEnemyProjectilePlayer
    \/ CheckPlayerEnemy \/ CheckPlayerPowerup

Spec == Init /\ [][Next]_vars

-----------------------------------------------------------------------------
(* The game objects and the resolution handlers *)

\* The config defaults the objects are built with.
EnemyDamage == 10
CollisionCooldown == 1000
EnemyProjectileDamage == 5
PowerupLifespan == 10000
HealthRestore == 25
ShieldDuration == 5000

Min(a, b) == IF a <= b THEN a ELSE b

\* Enemy.__init__; touched records that handle_player_enemy_collision was called
\* with the enemy (history).
Enemy(rect, health) ==
    [rect |-> rect, mask |-> FullMask(rect.w, rect.h), is_enemy_projectile |-> FALSE,
     active |-> TRUE, health |-> health, damage |-> EnemyDamage,
     collision_cooldown |-> CollisionCooldown, last_collision_time |-> 0,
     touched |-> FALSE]

\* Projectile.__init__
Projectile(rect, damage, is_enemy_projectile) ==
    [rect |-> rect, mask |-> FullMask(rect.w, rect.h),
     is_enemy_projectile |-> is_enemy_projectile, active |-> TRUE, damage |-> damage]

\* Powerup.__init__ at time current_time
Powerup(rect, type, current_time) ==
    [rect |-> rect, mask |-> PowerupMask(rect.w, rect.h), is_enemy_projectile |-> FALSE,
     active |-> TRUE, type |-> type, creation_time |-> current_time,
     lifespan |-> PowerupLifespan]

\* The objects the handlers read and write, as one value g.
World ==
    [sprites |-> sprites, projectile_group |-> projectile_group,
     enemy_group |-> enemy_group, powerup_group |-> powerup_group,
     invincible |-> invincible, current_health |-> current_health,
     invincible_timer |-> invincible_timer, invincible_duration |-> invincible_duration,
     damage_log |-> damage_log, ended |-> ended, death_log |-> death_log,
     hit_log |-> hit_log, window |-> window]

Becomes(g) ==
    /\ sprites' = g.sprites
    /\ projectile_group' = g.projectile_group
    /\ enemy_group' = g.enemy_group
    /\ powerup_group' = g.powerup_group
    /\ invincible' = g.invincible
    /\ current_health' = g.current_health
    /\ invincible_timer' = g.invincible_timer
    /\ invincible_duration' = g.invincible_duration
    /\ damage_log' = g.damage_log
    /\ ended' = g.ended
    /\ death_log' = g.death_log
    /\ hit_log' = g.hit_log
    /\ window' = g.window
    /\ UNCHANGED wave_manager

\* pygame.sprite.Sprite.kill(): the sprite leaves every group.
SpriteKill(g, s) ==
    [g EXCEPT !.projectile_group = Without(@, {s}),
              !.enemy_group = Without(@, {s}),
              !.powerup_group = Without(@, {s})]

\* Projectile.kill(): active = False, then Sprite.kill().
ProjectileKill(g, p) == SpriteKill([g EXCEPT !.sprites[p].active = FALSE], p)

\* Enemy.take_damage with the death test health < 0.
EnemyTakeDamageBelowZero(g, e, amount) ==
    LET health == g.sprites[e].health - amount
        g1 == [g EXCEPT !.sprites[e].health = health]
    IN  IF health < 0 THEN [g |-> SpriteKill(g1, e), result |-> TRUE]
        ELSE [g |-> g1, result |-> FALSE]

\* Enemy.take_damage(amount)
EnemyTakeDamage(g, e, amount) ==
    LET health == g.sprites[e].health - amount
        g1 == [g EXCEPT !.sprites[e].health = health]
    IN  IF health <= 0 THEN [g |-> SpriteKill(g1, e), result |-> TRUE]
        ELSE [g |-> g1, result |-> FALSE]

\* Player.take_damage without the test of self.invincible.
PlayerTakeDamageAlways(g, amount, current_time) ==
    [g |-> [g EXCEPT !.current_health = @ - amount, !.invincible = TRUE,
                     !.invincible_timer = current_time,
                     !.hit_log = Append(@, current_time), !.window = "damage"],
     result |-> g.current_health - amount <= 0]

\* Player.take_damage(amount) at time current_time
PlayerTakeDamage(g, amount, current_time) ==
    IF ~g.invincible
    THEN [g |-> [g EXCEPT !.current_health = @ - amount, !.invincible = TRUE,
                          !.invincible_timer = current_time,
                          !.hit_log = Append(@, current_time), !.window = "damage"],
          result |-> g.current_health - amount <= 0]
    ELSE [g |-> g, result |-> FALSE]

\* Enemy.can_collide with the cooldown test >=.
CanCollideAtCooldown(g, e, current_time) ==
    IF current_time - g.sprites[e].last_collision_time >= g.sprites[e].collision_cooldown
    THEN [g |-> [g EXCEPT !.sprites[e].last_collision_time = current_time],
          result |-> TRUE]
    ELSE [g |-> g, result |-> FALSE]

\* Enemy.can_collide(current_time)
can_collide(g, e, current_time) ==
    IF current_time - g.sprites[e].last_collision_time > g.sprites[e].collision_cooldown
    THEN [g |-> [g EXCEPT !.sprites[e].last_collision_time = current_time],
          result |-> TRUE]
    ELSE [g |-> g, result |-> FALSE]

\* handle_player_enemy_collision(player, enemy) at time current_time
handle_player_enemy_collision(g, e, current_time) ==
    LET c == can_collide(g, e, current_time)
        g1 == [c.g EXCEPT !.sprites[e].touched = TRUE]
    IN  IF ~c.result THEN [g |-> g1, result |-> FALSE]
        ELSE PlayerTakeDamage(g1, g1.sprites[e].damage, current_time)

\* Powerup.apply_effect(player) and deactivate(); the weapon, speed and damage
\* boosts change player fields no collision code reads.
apply_effect(g, w, current_time) ==
    IF ~g.sprites[w].active THEN [g |-> g, result |-> FALSE]
    ELSE LET type == g.sprites[w].type
             g1 == IF type = "health"
                   THEN [g EXCEPT !.current_health = Min(@ + HealthRestore, PlayerMaxHealth)]
                   ELSE IF type = "shield"
                   THEN [g EXCEPT !.invincible = TRUE, !.invincible_timer = current_time,
                                  !.invincible_duration = ShieldDuration,
                                  !.window = "shield"]
                   ELSE g
         IN  [g |-> [g1 EXCEPT !.sprites[w].active = FALSE, !.ended = @ \cup {w}],
              result |-> TRUE]

\* handle_player_powerup_collision(player, powerup)
handle_player_powerup_collision(g, w, current_time) == apply_effect(g, w, current_time)

\* handle_projectile_enemy_collision(projectile, enemy)
handle_projectile_enemy_collision(g, p, e) ==
    LET r == EnemyTakeDamage(ProjectileKill(g, p), e, g.sprites[p].damage)
    IN  [g |-> [r.g EXCEPT !.damage_log = @ \cup {<<p, e>>}], result |-> r.result]

\* handle_enemy_projectile_player_collision(player, projectile)
handle_enemy_projectile_player_collision(g, p, current_time) ==
    PlayerTakeDamage(ProjectileKill(g, p), g.sprites[p].damage, current_time)

-----------------------------------------------------------------------------
(* GameScene: one frame *)

\* GameScene.enemies_killed, which only handle_enemy_death raises.
enemies_killed(g) == Len(g.death_log)

\* GameScene.handle_enemy_death(enemy): enemy.kill() and, when the random draw
\* says so (drop is the powerup type drawn, or "none"), drop_powerup at the
\* enemy's position.
handle_enemy_death(g, e, drop, current_time) ==
    LET g1 == [SpriteKill(g, e) EXCEPT !.death_log = Append(@, e)]
        w == FreshId("powerup", g1.sprites)
    IN  IF drop = "none" THEN g1
        ELSE [g1 EXCEPT !.sprites = @ @@ (w :> Powerup(g.sprites[e].rect, drop, current_time)),
                        !.powerup_group = Append(@, w)]

\* The items of the projectile_hits dict as the sequence of its
\* <<projectile, enemy>> pairs, in the order the two nested loops visit them.
RECURSIVE HitSequence(_, _)
HitSequence(items, i) ==
    IF i > Len(items) THEN <<>>
    ELSE [j \in 1..Len(items[i][2]) |-> <<items[i][1], items[i][2][j]>>]
             \o HitSequence(items, i + 1)

\* _handle_collisions, projectiles vs enemies: every pair of the dict is handled.
RECURSIVE ResolveProjectileHits(_, _, _, _, _)
ResolveProjectileHits(g, pairs, i, drop, current_time) ==
    IF i > Len(pairs) THEN g
    ELSE LET r == handle_projectile_enemy_collision(g, pairs[i][1], pairs[i][2])
             g1 == IF r.result THEN handle_enemy_death(r.g, pairs[i][2], drop, current_time)
                   ELSE r.g
         IN  ResolveProjectileHits(g1, pairs, i + 1, drop, current_time)

\* _handle_collisions, enemy projectiles vs player
RECURSIVE ResolveEnemyProjectileHits(_, _, _, _)
ResolveEnemyProjectileHits(g, projectile_hits, i, current_time) ==
    IF i > Len(projectile_hits) THEN g
    ELSE ResolveEnemyProjectileHits(
             handle_enemy_projectile_player_collision(g, projectile_hits[i], current_time).g,
             projectile_hits, i + 1, current_time)

\* _handle_collisions, player vs enemies
RECURSIVE ResolveEnemyHits(_, _, _, _)
ResolveEnemyHits(g, enemy_hits, i, current_time) ==
    IF i > Len(enemy_hits) THEN g
    ELSE ResolveEnemyHits(handle_player_enemy_collision(g, enemy_hits[i], current_time).g,
                          enemy_hits, i + 1, current_time)

\* _handle_collisions, player vs powerups: an active powerup is applied and killed.
RECURSIVE ResolvePowerupHits(_, _, _, _)
ResolvePowerupHits(g, powerup_hits, i, current_time) ==
    IF i > Len(powerup_hits) THEN g
    ELSE LET w == powerup_hits[i]
             r == handle_player_powerup_collision(g, w, current_time)
             g1 == IF ~g.sprites[w].active THEN g
                   ELSE IF r.result THEN SpriteKill(r.g, w) ELSE r.g
         IN  ResolvePowerupHits(g1, powerup_hits, i + 1, current_time)

\* GameScene._handle_collisions(): the four queries, each followed by its handlers.
HandleCollisions(g, alg, structure, plr, drop, current_time) ==
    LET g1 == ResolveProjectileHits(
                  g, HitSequence(check_projectile_enemy_collisions(
                                     alg, structure, g.projectile_group, g.enemy_group,
                                     g.sprites), 1),
                  1, drop, current_time)
        g2 == IF g1.invincible THEN g1
              ELSE ResolveEnemyProjectileHits(
                       g1, check_enemy_projectile_player_collision(
                               alg, structure, plr, g1.invincible, g1.projectile_group,
                               g1.sprites),
                       1, current_time)
        g3 == IF g2.invincible THEN g2
              ELSE ResolveEnemyHits(
                       g2, check_player_enemy_collisions(
                               alg, structure, plr, g2.invincible, g2.enemy_group, g2.sprites),
                       1, current_time)
    IN  ResolvePowerupHits(
            g3, check_player_powerup_collisions(alg, structure, plr, g3.powerup_group,
                                                g3.sprites),
            1, current_time)

\* The orders in which the entries of a hit list can be handed to the handlers.
Orders(list) ==
    {[i \in 1..Len(list) |-> list[f[i]]] :
         f \in {h \in [1..Len(list) -> 1..Len(list)] :
                    \A i, j \in 1..Len(list) : h[i] = h[j] => i = j}}

\* _handle_collisions for every iteration order of its four hit lists: the
\* worlds the pass can end in.
HandleCollisionsOrders(g, alg, structure, plr, drop, current_time) ==
    LET W1 == {ResolveProjectileHits(g, o, 1, drop, current_time) :
                   o \in Orders(HitSequence(check_projectile_enemy_collisions(
                                                alg, structure, g.projectile_group,
                                                g.enemy_group, g.sprites), 1))}
        W2 == UNION {IF g1.invincible THEN {g1}
                     ELSE {ResolveEnemyProjectileHits(g1, o, 1, current_time) :
                               o \in Orders(check_enemy_projectile_player_collision(
                                                alg, structure, plr, g1.invincible,
                                                g1.projectile_group, g1.sprites))} :
                     g1 \in W1}
        W3 == UNION {IF g2.invincible THEN {g2}
                     ELSE {ResolveEnemyHits(g2, o, 1, current_time) :
                               o \in Orders(check_player_enemy_collisions(
                                                alg, structure, plr, g2.invincible,
                                                g2.enemy_group, g2.sprites))} :
                     g2 \in W2}
    IN  UNION {{ResolvePowerupHits(g3, o, 1, current_time) :
                    o \in Orders(check_player_powerup_collisions(
                                     alg, structure, plr, g3.powerup_group, g3.sprites))} :
               g3 \in W3}

\* The game state a _handle_collisions pass leaves: the player's health and
\* invincibility, every sprite's fields (health, cooldown stamp, active) and
\* enemies_killed, on which the score depends.
Outcome(g) ==
    [current_health |-> g.current_health, invincible |-> g.invincible,
     sprites |-> g.sprites, enemies_killed |-> enemies_killed(g)]

\* Player.update(): the end of the invincibility.
PlayerUpdate(g, current_time) ==
    IF g.invincible /\ current_time - g.invincible_timer > g.invincible_duration
    THEN [g EXCEPT !.invincible = FALSE, !.window = "none"]
    ELSE g

\* powerup_group.update(): Powerup.update() kills a powerup past its lifespan.
RECURSIVE PowerupGroupUpdate(_, _, _, _)
PowerupGroupUpdate(g, group, i, current_time) ==
    IF i > Len(group) THEN g
    ELSE LET w == group[i]
             expired == current_time - g.sprites[w].creation_time > g.sprites[w].lifespan
         IN  PowerupGroupUpdate(
                 IF expired THEN [SpriteKill(g, w) EXCEPT !.ended = @ \cup {w}] ELSE g,
                 group, i + 1, current_time)

-----------------------------------------------------------------------------
(* SpecGame: the frames of a GameScene and direct calls of the handlers *)

MaxGameSprites == 3     \* SpecGame: sprites spawned besides the player

\* The values pygame.time.get_ticks() takes: around the collision cooldown and the
\* invincibility duration after a hit, and past the lifespan of a powerup.
ClockValues == {0, 1000, 1001, 2001, 12003}

GamePlayerRect == Rect(0, 0, 2, 2)
\* Where enemies appear: on the player, and away from it.
GameRects == {Rect(0, 0, 1, 1), Rect(3, 3, 1, 1)}
\* Where shots appear: on the player.
ShotRect == Rect(0, 0, 1, 1)
EnemyHealthArgs == {5}
ProjectileDamageArgs == {4, 5}
PowerupTypes == {"health", "shield", "weapon"}

\* What a frame adds to the groups: an enemy of the wave, a shot of the player,
\* a shot of a ranged enemy, or nothing.
NoSpawn == [kind |-> "none"]
Spawns ==
    {NoSpawn}
        \cup {[kind |-> "enemy", sprite |-> Enemy(r, h)] : r \in GameRects, h \in EnemyHealthArgs}
        \cup {[kind |-> "projectile", sprite |-> Projectile(ShotRect, d, FALSE)] :
                  d \in ProjectileDamageArgs}
        \cup {[kind |-> "projectile",
               sprite |-> Projectile(ShotRect, EnemyProjectileDamage, TRUE)]}

ApplySpawn(g, spawn) ==
    IF spawn.kind = "none" THEN g
    ELSE LET s == FreshId(spawn.kind, g.sprites)
             g1 == [g EXCEPT !.sprites = @ @@ (s :> spawn.sprite)]
         IN  IF spawn.kind = "enemy" THEN [g1 EXCEPT !.enemy_group = Append(@, s)]
             ELSE [g1 EXCEPT !.projectile_group = Append(@, s)]

InitGame ==
    /\ algorithm \in {QUADTREE, SPATIAL_HASH}
    /\ spatial_structure = CollisionSystemStructure(algorithm, 4, 4, SystemCellSize)
    /\ player = PlayerId
    /\ sprites = (PlayerId :> Sprite(GamePlayerRect, FullMask(2, 2), FALSE))
    /\ invincible = FALSE
    /\ projectile_group = <<>>
    /\ enemy_group = <<>>
    /\ powerup_group = <<>>
    /\ updated = FALSE
    /\ last_update = NoUpdate
    /\ hits = NoCall
    /\ IndexIdle
    /\ GameIdle

\* Time passes: the clock moves on to one of the values.
TickTo(values) ==
    /\ \E t \in values : t > clock /\ clock' = t
    /\ UNCHANGED <<sprites, indexVars, systemVars, current_health, invincible_timer,
                   invincible_duration, handled, damage_log, ended, death_log,
                   hit_log, window, wave_manager>>

Tick == TickTo(ClockValues)

Spawned(spr) == (DOMAIN spr) \ {PlayerId}

\* The frame may add the sprite.
CanSpawn(spawn) == spawn.kind # "none" => Cardinality(Spawned(sprites)) < MaxGameSprites

\* GameScene.update() up to collision_system.update(): the world and the rebuilt
\* index that _handle_collisions finds.
BeforeCollisions(spawn) ==
    LET g0 == ApplySpawn(World, spawn)
        g1 == PlayerUpdate(g0, clock)
        g2 == PowerupGroupUpdate(g1, g1.powerup_group, 1, clock)
    IN  [g |-> g2,
         structure |-> Update(algorithm, spatial_structure, g2.projectile_group,
                              g2.enemy_group, player, g2.powerup_group, g2.sprites)]

\* GameScene.update(): the objects are updated (spawns, the end of the player's
\* invincibility, powerups past their lifespan), the index is rebuilt and the
\* collisions are handled. The positions stay as they were at the spawn.
GameSceneUpdate ==
    \E spawn \in Spawns, drop \in {"none"} \cup PowerupTypes :
        LET b == BeforeCollisions(spawn)
            g3 == HandleCollisions(b.g, algorithm, b.structure, player, drop, clock)
        IN  /\ CanSpawn(spawn)
            /\ Becomes(g3)
            /\ spatial_structure' = b.structure
            /\ updated' = TRUE
            /\ last_update' = Found(algorithm, spatial_structure, b.g.projectile_group,
                                    b.g.enemy_group, player, b.g.powerup_group)
            /\ hits' = NoCall
            /\ handled' = [call |-> "GameScene.update"]
            /\ UNCHANGED <<algorithm, player, clock, indexVars>>

NextGame == Tick \/ GameSceneUpdate

SpecGame == InitGame /\ [][NextGame]_vars

-----------------------------------------------------------------------------
(* SpecHandlers: the handlers, Powerup.update and the CollisionSystem called
   directly on a player, an enemy, two shots and a powerup *)

\* The sprites under test, all on the player.
EnemyId == SpriteId("enemy", 1)
PlayerShotId == SpriteId("projectile", 1)
EnemyShotId == SpriteId("projectile", 2)
PowerupId == SpriteId("powerup", 1)

InitObjects(algorithms) ==
    /\ algorithm \in algorithms
    /\ spatial_structure = CollisionSystemStructure(algorithm, 4, 4, SystemCellSize)
    /\ player = PlayerId
    /\ \E h \in EnemyHealthArgs, d \in ProjectileDamageArgs, type \in PowerupTypes :
           sprites = (PlayerId :> Sprite(GamePlayerRect, FullMask(2, 2), FALSE))
                         @@ (EnemyId :> Enemy(ShotRect, h))
                         @@ (PlayerShotId :> Projectile(ShotRect, d, FALSE))
                         @@ (EnemyShotId :> Projectile(ShotRect, EnemyProjectileDamage, TRUE))
                         @@ (PowerupId :> Powerup(ShotRect, type, 0))
    /\ invincible = FALSE
    /\ projectile_group = <<PlayerShotId, EnemyShotId>>
    /\ enemy_group = <<EnemyId>>
    /\ powerup_group = <<PowerupId>>
    /\ updated = FALSE
    /\ last_update = NoUpdate
    /\ hits = NoCall
    /\ IndexIdle
    /\ GameIdle

\* The handlers are called as the game calls them, with its SPATIAL_HASH system idle.
InitHandlers == InitObjects({SPATIAL_HASH})

\* What a handler call found: the player's and the sprite's fields before it.
Snapshot(s) ==
    [current_health |-> current_health, invincible |-> invincible, clock |-> clock,
     sprite |-> sprites[s],
     member |-> s \in Range(projectile_group) \cup Range(enemy_group)
                      \cup Range(powerup_group)]

\* A handler called directly with sprite s (and other), r its outcome.
HandlerCall(call, s, other, r) ==
    /\ Becomes(r.g)
    /\ handled' = [call |-> call, sprite |-> s, other |-> other, result |-> r.result,
                   before |-> Snapshot(s)]
    /\ hits' = NoCall
    /\ UNCHANGED <<algorithm, spatial_structure, player, updated, last_update, clock,
                   indexVars>>

HandlePlayerEnemy ==
    \E e \in Range(enemy_group) :
        HandlerCall("handle_player_enemy_collision", e, player,
                    handle_player_enemy_collision(World, e, clock))

\* The powerup may be one collected or expired before.
HandlePlayerPowerup ==
    \E w \in {s \in DOMAIN sprites : s[1] = "powerup"} :
        HandlerCall("handle_player_powerup_collision", w, player,
                    handle_player_powerup_collision(World, w, clock))

HandleProjectileEnemy ==
    \E p \in Range(projectile_group), e \in Range(enemy_group) :
        /\ ~sprites[p].is_enemy_projectile
        /\ HandlerCall("handle_projectile_enemy_collision", e, p,
                       handle_projectile_enemy_collision(World, p, e))

HandleEnemyProjectilePlayer ==
    \E p \in Range(projectile_group) :
        /\ sprites[p].is_enemy_projectile
        /\ HandlerCall("handle_enemy_projectile_player_collision", p, player,
                       handle_enemy_projectile_player_collision(World, p, clock))

\* Powerup.update() of a powerup of the group (powerup_group.update()).
PowerupUpdateCall ==
    /\ Becomes(PowerupGroupUpdate(World, powerup_group, 1, clock))
    /\ handled' = [call |-> "Powerup.update"]
    /\ hits' = NoCall
    /\ UNCHANGED <<algorithm, spatial_structure, player, updated, last_update, clock,
                   indexVars>>

\* Player.update(): the invincibility ends.
PlayerUpdateCall ==
    /\ Becomes(PlayerUpdate(World, clock))
    /\ handled' = [call |-> "Player.update"]
    /\ hits' = NoCall
    /\ UNCHANGED <<algorithm, spatial_structure, player, updated, last_update, clock,
                   indexVars>>

NextHandlers ==
    \/ Tick \/ PowerupUpdateCall \/ PlayerUpdateCall
    \/ HandlePlayerEnemy \/ HandlePlayerPowerup
    \/ HandleProjectileEnemy \/ HandleEnemyProjectilePlayer

SpecHandlers == InitHandlers /\ [][NextHandlers]_vars

-----------------------------------------------------------------------------
(* SpecQueries: the CollisionSystem of either algorithm between the handlers *)

InitQueries == InitObjects({QUADTREE, SPATIAL_HASH})

\* Time passes beyond every cooldown, duration and lifespan.
TickLate == TickTo({t \in ClockValues : \A u \in ClockValues : u <= t})

NextQueries ==
    \/ TickLate \/ PowerupUpdateCall \/ PlayerUpdateCall
    \/ HandlePlayerEnemy \/ HandlePlayerPowerup
    \/ HandleProjectileEnemy \/ HandleEnemyProjectilePlayer
    \/ UpdateCall
    \/ CheckProjectileEnemy \/ CheckEnemyProjectilePlayer
    \/ CheckPlayerEnemy \/ CheckPlayerPowerup

SpecQueries == InitQueries /\ [][NextQueries]_vars

-----------------------------------------------------------------------------
(* SpecMask: the narrow phase on two sprites *)

\* Where the two sprites are: on one spot, shifted, touching by a corner, apart.
MaskRects == {Rect(0, 0, 2, 2), Rect(1, 0, 2, 2), Rect(1, 1, 2, 2), Rect(3, 3, 2, 2)}

\* Images of 2 x 2 pixels by their alpha values: opaque; one opaque pixel beside
\* a faint one; fully transparent.
OpaqueImage == [p \in FullMask(2, 2) |-> 255]
CornerImage == [p \in FullMask(2, 2) |->
                   IF p = <<1, 1>> THEN 255 ELSE IF p = <<0, 0>> THEN 127 ELSE 0]
TransparentImage == [p \in FullMask(2, 2) |-> 0]
Images == {OpaqueImage, CornerImage, TransparentImage}

\* Masks a sprite brings along: of its whole image, of one pixel, of none.
Masks == {FullMask(2, 2), {<<0, 0>>}, {}}

\* The sprites mask_collision is called with: with an image and its mask (Player,
\* Enemy, Powerup), with an image only (Projectile), with a mask only, and with
\* neither (MockSprite).
MaskSprites ==
    {[rect |-> r, image |-> i, mask |-> FromSurface(i)] : r \in MaskRects, i \in Images}
        \cup {[rect |-> r, image |-> i] : r \in MaskRects, i \in Images}
        \cup {[rect |-> r, mask |-> m] : r \in MaskRects, m \in Masks}
        \cup {[rect |-> r] : r \in MaskRects}

MaskSpriteIds == {SpriteId("sprite", 1), SpriteId("sprite", 2)}

InitMask ==
    /\ sprites \in [MaskSpriteIds -> MaskSprites]
    /\ IndexIdle
    /\ SystemIdle
    /\ GameIdle

\* mask_collision(sprite1, sprite2): the masks are made where missing, sprite1's
\* first; a sprite with neither mask nor image ends the call in AttributeError.
MaskCollisionCall ==
    \E a, b \in MaskSpriteIds :
        LET sprite1 == sprites[a]
            sprite2 == sprites[b]
            call == [call |-> "mask_collision", sprite1 |-> a, sprite2 |-> b,
                     no_visual |-> MaskCollisionRaises(sprite1, sprite2),
                     lazy |-> ~HasMask(sprite1) \/ ~HasMask(sprite2)]
        IN  /\ a # b
            /\ IF NoVisual(sprite1)
               THEN /\ sprites' = sprites
                    /\ handled' = call @@ [raised |-> "AttributeError", result |-> FALSE]
               ELSE IF NoVisual(sprite2)
               THEN /\ sprites' = [sprites EXCEPT ![a] = WithMask(sprite1)]
                    /\ handled' = call @@ [raised |-> "AttributeError", result |-> FALSE]
               ELSE /\ sprites' = [sprites EXCEPT ![a] = WithMask(sprite1),
                                                  ![b] = WithMask(sprite2)]
                    /\ handled' = call @@ [raised |-> "none",
                                           result |-> mask_collision(sprite1, sprite2)]
            /\ UNCHANGED <<indexVars, systemVars, clock, current_health, invincible_timer,
                           invincible_duration, damage_log, ended, death_log, hit_log,
                   window, wave_manager>>

NextMask == MaskCollisionCall

SpecMask == InitMask /\ [][NextMask]_vars

-----------------------------------------------------------------------------
(* Properties of the spatial indexes (SpecIndex) *)

Usable(class, idx) == ValidConfig(class, idx) /\ ~Raises(class, idx)

\* retrieve(a) holds every other inserted sprite whose rect overlaps a's; the
\* sprites of spr are the ones inserted since the last clear().
NoFalseNegatives(class, idx, spr) ==
    \A a, b \in DOMAIN spr :
        (a # b /\ ColliderRect(spr[a].rect, spr[b].rect))
            => b \in Range(Retrieve(class, idx, a, spr))

\* C2: SpatialHashGrid has no broad-phase false negatives: for every two distinct
\* inserted sprites whose rects overlap (negative coordinates included, any
\* positive cell_size), retrieve(a) contains b and retrieve(b) contains a.
C2_GridNoFalseNegatives ==
    (index_class = "SpatialHashGrid" /\ Usable(index_class, index))
        => NoFalseNegatives(index_class, index, sprites)

\* C2 witness: a retrieve() on a grid for a sprite at negative coordinates that
\* spans several cells has returned another sprite overlapping it.
C2_Witness ==
    /\ index_class = "SpatialHashGrid"
    /\ Usable(index_class, index)
    /\ retrieved.call = "retrieve"
    /\ sprites[retrieved.sprite].rect.x < 0
    /\ Len(SpatialHashGridCells(index, sprites[retrieved.sprite].rect)) > 1
    /\ \E b \in Range(retrieved.result) :
           ColliderRect(sprites[retrieved.sprite].rect, sprites[b].rect)

\* C3: QuadTree has no broad-phase false negatives: for every two inserted sprites
\* whose rects overlap, retrieve() for either one returns the other, for any tree
\* bounds (odd sizes included) and for rects partly or fully outside the bounds.
C3_QuadTreeNoFalseNegatives ==
    (index_class = "QuadTree" /\ Usable(index_class, index))
        => NoFalseNegatives(index_class, index, sprites)

\* C4: for both indexes the result of one retrieve() call holds each sprite at
\* most once, also when a sprite was inserted twice since the last clear().
C4_RetrieveHasNoDuplicates ==
    Usable(index_class, index)
        => \A s \in DOMAIN sprites : NoDuplicates(Retrieve(index_class, index, s, sprites))

\* C5: for both indexes retrieve(s) never contains the query sprite s itself,
\* even when s was inserted into the index.
C5_RetrieveExcludesQuery ==
    Usable(index_class, index)
        => \A s \in DOMAIN sprites : s \notin Range(Retrieve(index_class, index, s, sprites))

\* C9: an index built with cell_size <= 0, max_objects <= 0 or max_levels <= 0
\* fails at construction, so no insert() or retrieve() ever runs on it.
C9_InvalidConfigNeverRuns ==
    (ninserts > 0 \/ retrieved.call = "retrieve" \/ raised # "none")
        => ValidConfig(index_class, index)

-----------------------------------------------------------------------------
(* Properties of the CollisionSystem (Spec) *)

ScreenWidth == IF algorithm = QUADTREE THEN spatial_structure.bounds.w
               ELSE spatial_structure.width
ScreenHeight == IF algorithm = QUADTREE THEN spatial_structure.bounds.h
                ELSE spatial_structure.height

InsideScreen(rect) ==
    /\ rect.x >= 0 /\ rect.y >= 0
    /\ rect.x + rect.w <= ScreenWidth /\ rect.y + rect.h <= ScreenHeight

\* The sprites passed to update().
Passed == Range(projectile_group) \cup Range(enemy_group) \cup Range(powerup_group)
              \cup {player}

\* The four query results of a system in the current frame.
ProjectileEnemy(alg, structure) ==
    check_projectile_enemy_collisions(alg, structure, projectile_group, enemy_group, sprites)
EnemyProjectilePlayer(alg, structure) ==
    check_enemy_projectile_player_collision(alg, structure, player, invincible,
                                            projectile_group, sprites)
PlayerEnemy(alg, structure) ==
    check_player_enemy_collisions(alg, structure, player, invincible, enemy_group, sprites)
PlayerPowerup(alg, structure) ==
    check_player_powerup_collisions(alg, structure, player, powerup_group, sprites)

\* The pairs <<projectile, enemy>> of a check_projectile_enemy_collisions result.
HitPairs(items) ==
    UNION {{<<items[i][1], e>> : e \in Range(items[i][2])} : i \in 1..Len(items)}

\* C1: after update() with all sprites inside the screen bounds no real collision
\* is missed: every player projectile / enemy pair, every enemy projectile /
\* non-invincible player pair, every non-invincible player / enemy pair and every
\* player / active powerup pair with mask_collision true is reported.
C1_NoCollisionMissed ==
    (updated /\ \A s \in Passed : InsideScreen(sprites[s].rect)) =>
        /\ \A p \in Range(projectile_group), e \in Range(enemy_group) :
               (~sprites[p].is_enemy_projectile /\ mask_collision(sprites[p], sprites[e]))
                   => <<p, e>> \in HitPairs(ProjectileEnemy(algorithm, spatial_structure))
        /\ \A p \in Range(projectile_group) :
               (~invincible /\ sprites[p].is_enemy_projectile
                    /\ mask_collision(sprites[player], sprites[p]))
                   => p \in Range(EnemyProjectilePlayer(algorithm, spatial_structure))
        /\ \A e \in Range(enemy_group) :
               (~invincible /\ mask_collision(sprites[player], sprites[e]))
                   => e \in Range(PlayerEnemy(algorithm, spatial_structure))
        /\ \A w \in Range(powerup_group) :
               (sprites[w].active /\ mask_collision(sprites[player], sprites[w]))
                   => w \in Range(PlayerPowerup(algorithm, spatial_structure))

\* A system of the other algorithm, built with the same arguments and updated
\* with the same groups and player.
OtherAlgorithm == IF algorithm = QUADTREE THEN SPATIAL_HASH ELSE QUADTREE
OtherSystem ==
    Update(OtherAlgorithm,
           CollisionSystemStructure(OtherAlgorithm, ScreenWidth, ScreenHeight, SystemCellSize),
           projectile_group, enemy_group, player, powerup_group, sprites)

\* C6: for the same groups and player passed to update(), a QUADTREE system and a
\* SPATIAL_HASH system return the same hits, compared as sets, from each of the
\* four check_* queries.
C6_AlgorithmsAgree ==
    updated =>
        /\ HitPairs(ProjectileEnemy(algorithm, spatial_structure))
               = HitPairs(ProjectileEnemy(OtherAlgorithm, OtherSystem))
        /\ Range(EnemyProjectilePlayer(algorithm, spatial_structure))
               = Range(EnemyProjectilePlayer(OtherAlgorithm, OtherSystem))
        /\ Range(PlayerEnemy(algorithm, spatial_structure))
               = Range(PlayerEnemy(OtherAlgorithm, OtherSystem))
        /\ Range(PlayerPowerup(algorithm, spatial_structure))
               = Range(PlayerPowerup(OtherAlgorithm, OtherSystem))

\* The structure holds exactly the sprites of `passed`, each once: once in the
\* quadtree, once in every grid cell its rect occupies and in no other cell.
HoldsExactly(alg, structure, passed, spr) ==
    IF alg = QUADTREE
    THEN /\ Range(QuadTreeContents(structure)) = passed
         /\ NoDuplicates(QuadTreeContents(structure))
    ELSE /\ \A key \in DOMAIN structure.grid :
                /\ NoDuplicates(structure.grid[key])
                /\ \A s \in Range(structure.grid[key]) :
                       s \in passed /\ key \in Range(SpatialHashGridCells(structure, spr[s].rect))
         /\ \A s \in passed :
                \A key \in Range(SpatialHashGridCells(structure, spr[s].rect)) :
                    key \in DOMAIN structure.grid /\ s \in Range(structure.grid[key])

\* C7: the index is rebuilt, never accumulated: after update() with collections A
\* followed by update() with collections B the structure holds exactly the
\* sprites of B, each once, and retrieve() returns no sprite that is only in A.
C7_IndexRebuilt ==
    updated =>
        /\ HoldsExactly(algorithm, spatial_structure, Passed, sprites)
        /\ \A s \in Passed :
               Range(Retrieve(ClassOf(algorithm), spatial_structure, s, sprites)) \subseteq Passed

\* C7 witness: an update() that cleared a subdivided quadtree and dropped sprites
\* of the previous call, followed by a query.
C7_Witness ==
    /\ updated
    /\ algorithm = QUADTREE
    /\ last_update.was_divided
    /\ last_update.dropped # {}
    /\ Cardinality(Passed) > 1
    /\ hits.call = "check_player_enemy_collisions"

\* C8: each of the four check_* queries on a system on which update() was never
\* called returns an empty result, for both algorithms and any groups passed.
C8_QueryBeforeUpdateEmpty ==
    ~updated =>
        /\ ProjectileEnemy(algorithm, spatial_structure) = <<>>
        /\ EnemyProjectilePlayer(algorithm, spatial_structure) = <<>>
        /\ PlayerEnemy(algorithm, spatial_structure) = <<>>
        /\ PlayerPowerup(algorithm, spatial_structure) = <<>>
        /\ hits.result = <<>>

\* C8 witness: a query for the enemies hitting the player was made before any
\* update() while an enemy overlaps the player.
C8_Witness ==
    /\ ~updated
    /\ hits.call = "check_player_enemy_collisions"
    /\ \E e \in Range(enemy_group) : mask_collision(sprites[player], sprites[e])
    /\ \E p \in Range(projectile_group) : ~sprites[p].is_enemy_projectile

\* C10: a projectile with is_enemy_projectile true is never a key of the result of
\* check_projectile_enemy_collisions, and one with is_enemy_projectile false is
\* never in the result of check_enemy_projectile_player_collision.
C10_CategoryFiltering ==
    /\ \A i \in 1..Len(ProjectileEnemy(algorithm, spatial_structure)) :
           ~sprites[ProjectileEnemy(algorithm, spatial_structure)[i][1]].is_enemy_projectile
    /\ \A p \in Range(EnemyProjectilePlayer(algorithm, spatial_structure)) :
           sprites[p].is_enemy_projectile
    /\ hits.call = "check_projectile_enemy_collisions" =>
           \A i \in 1..Len(hits.result) : ~sprites[hits.result[i][1]].is_enemy_projectile
    /\ hits.call = "check_enemy_projectile_player_collision" =>
           \A p \in Range(hits.result) : sprites[p].is_enemy_projectile

\* C10 witness: a player projectile and an enemy projectile at the same
\* coordinates, on top of the player and an enemy; the projectile / enemy query
\* has reported the player projectile, and the enemy projectile hits the player.
C10_Witness ==
    /\ updated
    /\ hits.call = "check_projectile_enemy_collisions"
    /\ hits.result # <<>>
    /\ EnemyProjectilePlayer(algorithm, spatial_structure) # <<>>
    /\ \E p, q \in Range(projectile_group) :
           /\ ~sprites[p].is_enemy_projectile /\ sprites[q].is_enemy_projectile
           /\ sprites[p].rect = sprites[q].rect
           /\ mask_collision(sprites[player], sprites[p])
           /\ \E e \in Range(enemy_group) : mask_collision(sprites[q], sprites[e])

-----------------------------------------------------------------------------
(* Properties of the narrow phase (SpecMask) *)

\* C19: mask_collision(a, b) equals mask_collision(b, a) for every two sprites,
\* any masks and rect positions, also when the call made one or both masks: the
\* result of a call equals that of the call with the sprites swapped after it.
C19_MaskCollisionSymmetric ==
    /\ \A a, b \in DOMAIN sprites :
           ~MaskCollisionRaises(sprites[a], sprites[b])
               => (mask_collision(sprites[a], sprites[b])
                       <=> mask_collision(sprites[b], sprites[a]))
    /\ (handled.call = "mask_collision" /\ handled.raised = "none")
           => (handled.result
                   <=> mask_collision(sprites[handled.sprite2], sprites[handled.sprite1]))

\* C19 witness: a call that made a mask and found a collision of two sprites at
\* different positions.
C19_Witness ==
    /\ handled.call = "mask_collision"
    /\ handled.raised = "none"
    /\ handled.lazy
    /\ handled.result
    /\ sprites[handled.sprite1].rect # sprites[handled.sprite2].rect

\* C20: for a pair holding a sprite with no mask and no image mask_collision
\* raises nothing and returns False.
C20_MissingVisualNeverCollides ==
    (handled.call = "mask_collision" /\ handled.no_visual)
        => (handled.raised = "none" /\ ~handled.result)

-----------------------------------------------------------------------------
(* Properties of the queries between the handlers (SpecQueries) *)

\* C11: whenever player.invincible is true, check_player_enemy_collisions and
\* check_enemy_projectile_player_collision return an empty list, even when
\* enemies and enemy projectiles overlap the player.
C11_InvincibleNoHits ==
    invincible =>
        /\ PlayerEnemy(algorithm, spatial_structure) = <<>>
        /\ EnemyProjectilePlayer(algorithm, spatial_structure) = <<>>
        /\ hits.call \in {"check_player_enemy_collisions",
                          "check_enemy_projectile_player_collision"}
               => hits.result = <<>>

\* C11 witness: the enemies hitting the player were queried while the player was
\* invincible and an indexed enemy and an enemy projectile overlapped it.
C11_Witness ==
    /\ invincible
    /\ updated
    /\ hits.call = "check_player_enemy_collisions"
    /\ \E e \in Range(enemy_group) :
           /\ e \in Indexed(ClassOf(algorithm), spatial_structure)
           /\ mask_collision(sprites[player], sprites[e])
    /\ \E p \in Range(projectile_group) :
           /\ sprites[p].is_enemy_projectile
           /\ p \in Indexed(ClassOf(algorithm), spatial_structure)
           /\ mask_collision(sprites[player], sprites[p])

\* C12: once a powerup was collected or has expired, no later
\* check_player_powerup_collisions call returns it, even if it is still in
\* powerup_group and overlaps the player, and its active flag never goes from
\* False back to True.
C12_PowerupEndIsPermanent ==
    /\ [](\A w \in ended :
              /\ w \notin Range(PlayerPowerup(algorithm, spatial_structure))
              /\ hits.call = "check_player_powerup_collisions"
                     => w \notin Range(hits.result))
    /\ [][\A w \in DOMAIN sprites :
              (w[1] = "powerup" /\ ~sprites[w].active) => ~sprites'[w].active]_vars

\* C12 witness: the powerups hitting the player were queried after update() while
\* a collected powerup was still in powerup_group, indexed and on the player.
C12_Witness ==
    /\ updated
    /\ hits.call = "check_player_powerup_collisions"
    /\ \E w \in ended :
           /\ w \in Range(powerup_group)
           /\ ~sprites[w].active
           /\ w \in Indexed(ClassOf(algorithm), spatial_structure)
           /\ mask_collision(sprites[player], sprites[w])

\* C18: update() and the four check_* queries never change the membership of
\* projectile_group, enemy_group or powerup_group, nor the active, health or
\* invincible fields of any sprite.
C18_QueriesOnlyRead ==
    [][(UpdateCall \/ CheckProjectileEnemy \/ CheckEnemyProjectilePlayer
            \/ CheckPlayerEnemy \/ CheckPlayerPowerup)
         => /\ UNCHANGED <<projectile_group, enemy_group, powerup_group, invincible,
                           current_health>>
            /\ DOMAIN sprites' = DOMAIN sprites
            /\ \A s \in DOMAIN sprites :
                   /\ sprites'[s].active = sprites[s].active
                   /\ "health" \in DOMAIN sprites[s]
                          => sprites'[s].health = sprites[s].health]_vars

\* C18 witness: a query after update() that found a powerup on the player.
C18_Witness ==
    /\ updated
    /\ hits.call = "check_player_powerup_collisions"
    /\ hits.result # <<>>
    /\ Range(hits.result) \subseteq Range(powerup_group)

-----------------------------------------------------------------------------
(* Properties of the handlers (SpecHandlers) *)

\* C13: handle_projectile_enemy_collision lowers enemy.health by exactly
\* projectile.damage, leaves the projectile inactive, and returns True if and
\* only if the enemy's health after the hit is <= 0.
C13_ProjectileEnemyHandler ==
    handled.call = "handle_projectile_enemy_collision" =>
        /\ sprites[handled.sprite].health
               = handled.before.sprite.health - sprites[handled.other].damage
        /\ ~sprites[handled.other].active
        /\ handled.result <=> sprites[handled.sprite].health <= 0

\* C13 witness: an enemy of health 5 was hit by a projectile of damage 5 and the
\* handler returned True.
C13_Witness ==
    /\ handled.call = "handle_projectile_enemy_collision"
    /\ handled.before.sprite.health = 5
    /\ sprites[handled.other].damage = 5
    /\ handled.result

\* C15: when at most collision_cooldown ms have passed since the enemy's
\* last_collision_time, handle_player_enemy_collision returns False and leaves
\* player.current_health, player.invincible and enemy.last_collision_time
\* unchanged; in every case the enemy stays alive and in its groups.
C15_CooldownRespected ==
    handled.call = "handle_player_enemy_collision" =>
        LET e == handled.sprite
            b == handled.before
        IN  /\ b.clock - b.sprite.last_collision_time <= b.sprite.collision_cooldown
                   => /\ ~handled.result
                      /\ current_health = b.current_health
                      /\ invincible = b.invincible
                      /\ sprites[e].last_collision_time = b.sprite.last_collision_time
            /\ b.member => e \in Range(enemy_group)
            /\ sprites[e].health = b.sprite.health
            /\ sprites[e].active

\* C15 witness: the handler was called for a non-invincible player exactly
\* collision_cooldown ms after the enemy's last collision.
C15_Witness ==
    /\ handled.call = "handle_player_enemy_collision"
    /\ ~handled.before.invincible
    /\ handled.before.sprite.last_collision_time > 0
    /\ handled.before.clock - handled.before.sprite.last_collision_time
           = handled.before.sprite.collision_cooldown

\* C16: for a non-invincible player and an enemy the handler was never called
\* with before, handle_player_enemy_collision lowers player.current_health by
\* enemy.damage and sets player.invincible, at any value of the game clock.
C16_FirstContactHurts ==
    (/\ handled.call = "handle_player_enemy_collision"
     /\ ~handled.before.invincible
     /\ ~handled.before.sprite.touched)
        => /\ current_health = handled.before.current_health - handled.before.sprite.damage
           /\ invincible

\* C17: handle_player_powerup_collision always returns True and always leaves
\* powerup.active False, for an active and for an already inactive powerup.
C17_PowerupHandlerReturnsTrue ==
    handled.call = "handle_player_powerup_collision"
        => (handled.result /\ ~sprites[handled.sprite].active)

-----------------------------------------------------------------------------
(* Properties of the game frames (SpecGame) *)

\* C14: over its whole lifetime a player projectile applies its damage to at most
\* one enemy, also when it overlaps several enemies in one _handle_collisions pass.
C14_ProjectileHitsOneEnemy ==
    \A hit1, hit2 \in damage_log : hit1[1] = hit2[1] => hit1[2] = hit2[2]

-----------------------------------------------------------------------------
(* Soundness of the reported hits (Spec) *)

\* The items of a check_projectile_enemy_collisions result are sound.
SoundItems(items) ==
    \A i \in 1..Len(items) :
        /\ items[i][2] # <<>>
        /\ \A e \in Range(items[i][2]) :
               /\ e \in Range(enemy_group)
               /\ mask_collision(sprites[items[i][1]], sprites[e])

\* The sprites of a player query result are sound.
SoundHits(result, group) ==
    \A s \in Range(result) :
        s \in Range(group) /\ mask_collision(sprites[player], sprites[s])

\* C21: every value of the check_projectile_enemy_collisions mapping is a
\* non-empty list of members of enemy_group that mask-collide with the key, and
\* every sprite returned by the three player queries is a member of the group
\* argument that mask-overlaps the player.
C21_ReportedHitsSound ==
    /\ SoundItems(ProjectileEnemy(algorithm, spatial_structure))
    /\ SoundHits(EnemyProjectilePlayer(algorithm, spatial_structure), projectile_group)
    /\ SoundHits(PlayerEnemy(algorithm, spatial_structure), enemy_group)
    /\ SoundHits(PlayerPowerup(algorithm, spatial_structure), powerup_group)
    /\ hits.call = "check_projectile_enemy_collisions" => SoundItems(hits.result)
    /\ hits.call = "check_enemy_projectile_player_collision"
           => SoundHits(hits.result, projectile_group)
    /\ hits.call = "check_player_enemy_collisions" => SoundHits(hits.result, enemy_group)
    /\ hits.call = "check_player_powerup_collisions"
           => SoundHits(hits.result, powerup_group)

\* C21 witness: the enemy projectiles hitting the player were queried; one was
\* reported, and another one, far from the player, was a candidate of the broad
\* phase and was not reported.
C21_Witness ==
    /\ updated
    /\ hits.call = "check_enemy_projectile_player_collision"
    /\ hits.result # <<>>
    /\ \E p \in Range(Potential(algorithm, spatial_structure, player, projectile_group,
                                sprites)) :
           /\ sprites[p].is_enemy_projectile
           /\ ~ColliderRect(sprites[player].rect, sprites[p].rect)
           /\ p \notin Range(hits.result)

-----------------------------------------------------------------------------
(* Properties of the game frames: deaths and hits (SpecGame) *)

\* C26: over any run of GameScene frames handle_enemy_death is executed at most
\* once per enemy, also when several projectiles hit the enemy in the frame in
\* which it dies.
C26_EachEnemyDiesOnce == NoDuplicates(death_log)

\* The enemy projectiles that were handled (killed by their handler).
SpentEnemyProjectiles ==
    {p \in DOMAIN sprites : /\ p[1] = "projectile"
                            /\ sprites[p].is_enemy_projectile
                            /\ ~sprites[p].active}

\* The player is invincible and Player.update() at the current clock leaves it so.
StaysInvincible == invincible /\ ~(clock - invincible_timer > invincible_duration)

\* C27: while player.invincible is True no frame lowers current_health; a damaging
\* hit sets invincible to True; one _handle_collisions pass lowers current_health
\* at most once, however many enemy projectiles and enemies overlap the player.
C27_OneHitPerWindow ==
    [][GameSceneUpdate =>
          /\ Len(hit_log') <= Len(hit_log) + 1
          /\ StaysInvincible => (hit_log' = hit_log /\ current_health' >= current_health)
          /\ hit_log' # hit_log => invincible']_vars

\* C27 witness: two enemy projectiles were handled and an enemy on the player has
\* landed the first of two hits, so the two projectiles landed one hit between them.
C27_Witness ==
    /\ handled.call = "GameScene.update"
    /\ invincible
    /\ Len(hit_log) = 2
    /\ Cardinality(SpentEnemyProjectiles) = 2
    /\ \E e \in Range(enemy_group) :
           /\ mask_collision(sprites[player], sprites[e])
           /\ sprites[e].last_collision_time = hit_log[1]
           /\ hit_log[1] > 0

\* C22: for the hit lists of one frame, the game state after all handlers have
\* run (player health and invincibility, every enemy's health and cooldown stamp,
\* the active flags, enemies_killed and the score) is the same for every order in
\* which the hits are handed to the handlers.
C22_OrderInsensitive ==
    \A spawn \in Spawns :
        CanSpawn(spawn) =>
            LET b == BeforeCollisions(spawn)
            IN  Cardinality({Outcome(g) :
                                 g \in HandleCollisionsOrders(b.g, algorithm, b.structure,
                                                              player, "none", clock)}) = 1

-----------------------------------------------------------------------------
(* SpecWindow: hits, pickups and Player.update over the length of a shield *)

\* The values of the clock: a shield picked up at 0 has run out at 5001, and a
\* window granted by a hit at 5001 is over at 6002.
WindowClockValues == {0, ShieldDuration + 1, ShieldDuration + InvincibilityDuration + 2}

TickWindow == TickTo(WindowClockValues)

NextWindow ==
    \/ TickWindow \/ PlayerUpdateCall
    \/ HandlePlayerEnemy \/ HandlePlayerPowerup \/ HandleEnemyProjectilePlayer

SpecWindow == InitHandlers /\ [][NextWindow]_vars

\* C28: the invincibility granted by a damaging hit at time t is over at the
\* first Player.update with current_time - t > the configured
\* invincibility_duration, whatever hits and pickups (shields included) came before.
C28_DamageWindowLasts ==
    (/\ handled.call = "Player.update"
     /\ window = "damage"
     /\ clock - invincible_timer > InvincibilityDuration)
        => ~invincible

-----------------------------------------------------------------------------
(* Properties of the QuadTree nodes (SpecIndex) *)

\* Every node of the tree with its path from the root (the child numbers 1..4).
RECURSIVE QuadTreeNodes(_, _)
QuadTreeNodes(t, path) ==
    {[path |-> path, node |-> t]}
        \cup UNION {QuadTreeNodes(t.nodes[i], Append(path, i)) : i \in 1..Len(t.nodes)}

\* The shape of one node: no children or four children of equal size one level
\* deeper, a level within max_levels, and at most max_objects sprites while it
\* is not divided and may still divide.
NodeShape(t) ==
    /\ Len(t.nodes) \in {0, 4}
    /\ t.is_divided <=> Len(t.nodes) = 4
    /\ \A i \in 1..Len(t.nodes) :
           /\ t.nodes[i].level = t.level + 1
           /\ t.nodes[i].bounds.w = t.nodes[1].bounds.w
           /\ t.nodes[i].bounds.h = t.nodes[1].bounds.h
    /\ t.level <= t.max_levels
    /\ (~t.is_divided /\ t.level < t.max_levels) => Len(t.objects) <= t.max_objects

\* The paths of the divided nodes.
Divided(t) == {n.path : n \in {m \in QuadTreeNodes(t, <<>>) : m.node.is_divided}}

\* C23: after any sequence of insert() and clear() every node has no children or
\* exactly four children of equal size one level deeper, no node has a level
\* above max_levels, a node that is not divided and below max_levels holds at
\* most max_objects sprites, and a node divides only at the insert that makes
\* its object count exceed max_objects.
C23_QuadTreeShape ==
    /\ [](index_class = "QuadTree" =>
              \A n \in QuadTreeNodes(index, <<>>) : NodeShape(n.node))
    /\ [][index_class = "QuadTree" =>
              \A path \in Divided(index') \ Divided(index) :
                  /\ ninserts' = ninserts + 1
                  /\ \A n \in QuadTreeNodes(index, <<>>) :
                         n.path = path => Len(n.node.objects) = n.node.max_objects]_vars

\* C23 witness: after three inserts the root is divided and a child at level
\* max_levels holds more than max_objects sprites.
C23_Witness ==
    /\ index_class = "QuadTree"
    /\ ninserts = 3
    /\ index.is_divided
    /\ \E i \in 1..4 :
           /\ index.nodes[i].level = index.max_levels
           /\ Len(index.nodes[i].objects) > index.max_objects

\* The entries stored in node t are where get_index puts them.
NodeOwnership(t, spr) ==
    /\ t.is_divided => \A s \in Range(t.objects) : QuadTreeGetIndex(t, spr[s].rect) = -1
    /\ \A i \in 1..Len(t.nodes) :
           \A s \in Range(QuadTreeContents(t.nodes[i])) :
               QuadTreeGetIndex(t, spr[s].rect) = i - 1

\* C24: after clear() and n insert() calls the tree stores exactly n entries;
\* every sprite in the own list of a divided node has get_index -1 on that node,
\* and every sprite stored under child i of a node has get_index i on that node.
C24_QuadTreeOwnership ==
    index_class = "QuadTree" =>
        /\ Len(QuadTreeContents(index)) = ninserts
        /\ \A n \in QuadTreeNodes(index, <<>>) : NodeOwnership(n.node, sprites)

\* C24 witness: after three inserts a divided root keeps a sprite that straddles
\* a midline and stores sprites in two of its children.
C24_Witness ==
    /\ index_class = "QuadTree"
    /\ ninserts = 3
    /\ index.is_divided
    /\ index.objects # <<>>
    /\ Cardinality({i \in 1..4 : QuadTreeContents(index.nodes[i]) # <<>>}) = 2

-----------------------------------------------------------------------------
(* SpecVisual: images that change after the mask was built *)

\* An opaque w x h image (game_asset_manager.get_character_sprite).
ImageOf(w, h) == [p \in FullMask(w, h) |-> 255]

\* Surface.get_size()
ImageSize(image) ==
    <<Cardinality({p[1] : p \in DOMAIN image}), Cardinality({p[2] : p \in DOMAIN image})>>

\* pygame.transform.scale(image, (w * factor, h * factor))
TransformScale(image, factor) ==
    [p \in FullMask(ImageSize(image)[1] * factor, ImageSize(image)[2] * factor) |->
         image[<<p[1] \div factor, p[2] \div factor>>]]

\* image.get_rect(center=rect.center)
GetRectCentered(image, rect) ==
    LET w == ImageSize(image)[1]
        h == ImageSize(image)[2]
    IN  Rect(rect.x + (rect.w \div 2) - (w \div 2), rect.y + (rect.h \div 2) - (h \div 2),
             w, h)

\* self.mask = pygame.mask.from_surface(self.image); mask_size is Mask.get_size().
BuildMask(sprite) ==
    [sprite EXCEPT !.mask = FromSurface(sprite.image), !.mask_size = ImageSize(sprite.image)]

\* Player.__init__, Enemy.__init__ and Powerup.__init__: the image, its rect at
\* (x, y) and the mask made from the image.
VisualSprite(x, y, w, h) ==
    [rect |-> Rect(x, y, w, h), image |-> ImageOf(w, h), original_image |-> ImageOf(w, h),
     mask |-> FullMask(w, h), mask_size |-> <<w, h>>, is_enemy_projectile |-> FALSE,
     active |-> TRUE, flash_effect |-> FALSE]

BossScaleFactor == 2
\* The sizes a pulsing powerup takes.
PulseSizes == {1, 2}
\* Where the player stands.
VisualPlayerRects == {Rect(0, 0, 1, 1), Rect(1, 1, 1, 1), Rect(2, 2, 1, 1), Rect(3, 3, 1, 1)}
\* Where the enemy is created.
VisualEnemyRects == {Rect(2, 2, 1, 1), Rect(3, 3, 1, 1)}

InitVisual ==
    /\ \E e \in VisualEnemyRects :
           sprites = (PlayerId :> VisualSprite(0, 0, 1, 1))
                         @@ (EnemyId :> VisualSprite(e.x, e.y, 1, 1))
                         @@ (PowerupId :> VisualSprite(1, 1, 1, 1))
    /\ algorithm = SPATIAL_HASH
    /\ spatial_structure = CollisionSystemStructure(SPATIAL_HASH, 4, 4, SystemCellSize)
    /\ player = PlayerId
    /\ invincible = FALSE
    /\ projectile_group = <<>>
    /\ enemy_group = <<EnemyId>>
    /\ powerup_group = <<PowerupId>>
    /\ updated = FALSE
    /\ last_update = NoUpdate
    /\ hits = NoCall
    /\ IndexIdle
    /\ GameIdle

\* The sprite s becomes sprite; nothing else changes.
VisualStep(call, s, sprite) ==
    /\ sprites' = [sprites EXCEPT ![s] = sprite]
    /\ handled' = [call |-> call, sprite |-> s]
    /\ UNCHANGED <<indexVars, systemVars, clock, current_health, invincible_timer,
                   invincible_duration, damage_log, ended, death_log, hit_log, window, wave_manager>>

\* GameScene.spawn_boss: original_image and image are scaled by 2 and the rect is
\* made anew around the old centre; the mask of Enemy.__init__ stays.
SpawnBossScale ==
    /\ ImageSize(sprites[EnemyId].image) = <<1, 1>>
    /\ LET scaled == TransformScale(sprites[EnemyId].original_image, BossScaleFactor)
       IN  VisualStep("spawn_boss", EnemyId,
                      [sprites[EnemyId] EXCEPT !.original_image = scaled, !.image = scaled,
                                               !.rect = GetRectCentered(scaled, @)])

\* start_flash_effect (Enemy.take_damage, Player.take_damage)
StartFlashEffect ==
    \E s \in {PlayerId, EnemyId} :
        /\ ~sprites[s].flash_effect
        /\ VisualStep("start_flash_effect", s, [sprites[s] EXCEPT !.flash_effect = TRUE])

\* apply_visual_effects of a flashing sprite (Enemy.update, Player.update): the
\* image is the original or the original under the overlay, the flash may be
\* over (expired), and the mask is made anew.
ApplyVisualEffects ==
    \E s \in {PlayerId, EnemyId}, expired \in BOOLEAN :
        /\ sprites[s].flash_effect
        /\ VisualStep("apply_visual_effects", s,
                      BuildMask([sprites[s] EXCEPT !.image = sprites[s].original_image,
                                                   !.flash_effect = ~expired]))

\* Powerup.update: _create_image at the current pulse size (with its mask), then
\* the rect around the old centre.
PowerupPulse ==
    \E size \in PulseSizes :
        LET w == BuildMask([sprites[PowerupId] EXCEPT !.image = ImageOf(size, size)])
        IN  VisualStep("Powerup.update", PowerupId,
                       [w EXCEPT !.rect = GetRectCentered(w.image, @)])

\* The player moves.
VisualMovePlayer ==
    \E r \in VisualPlayerRects :
        /\ r # sprites[PlayerId].rect
        /\ VisualStep("Player.update", PlayerId, [sprites[PlayerId] EXCEPT !.rect = r])

\* mask_collision(player, other) of check_player_enemy_collisions and
\* check_player_powerup_collisions: both sprites have a mask, none is made.
VisualMaskCollision ==
    \E s \in {EnemyId, PowerupId} :
        /\ handled' = [call |-> "mask_collision", sprite |-> s,
                       result |-> mask_collision(sprites[PlayerId], sprites[s])]
        /\ UNCHANGED <<sprites, indexVars, systemVars, clock, current_health,
                       invincible_timer, invincible_duration, damage_log, ended,
                       death_log, hit_log, window, wave_manager>>

NextVisual ==
    \/ SpawnBossScale \/ StartFlashEffect \/ ApplyVisualEffects \/ PowerupPulse
    \/ VisualMovePlayer \/ VisualMaskCollision

SpecVisual == InitVisual /\ [][NextVisual]_vars

\* The two sprites of the narrow phase test recorded in handled.
Tested == {PlayerId, handled.sprite}

\* C25: at every mask_collision call the mask of each sprite has the dimensions
\* of its current image and rect, also after a flash overlay, a powerup pulse
\* and the scaling of image and rect by spawn_boss.
C25_MaskMatchesFootprint ==
    handled.call = "mask_collision" =>
        \A s \in Tested :
            /\ sprites[s].mask_size = ImageSize(sprites[s].image)
            /\ sprites[s].mask_size = <<sprites[s].rect.w, sprites[s].rect.h>>

-----------------------------------------------------------------------------
(* WaveManager *)

\* WaveManager.__init__: the defaults of the wave configuration.
boss_wave_frequency == 5
base_enemies_per_wave == 10
enemies_increase_per_wave == 3
max_enemies_per_wave == 50
base_spawn_interval == 1000
min_spawn_interval == 200
spawn_interval_decrease == 50

is_boss_wave(wave_number) == wave_number % boss_wave_frequency = 0

\* The count of a boss wave is the larger of half the capped count and the
\* uncapped count of the wave before it.
get_enemy_count_for_wave(wave_number) ==
    LET enemy_count == Min(base_enemies_per_wave
                               + (wave_number - 1) * enemies_increase_per_wave,
                           max_enemies_per_wave)
        prev_wave_count == base_enemies_per_wave
                               + ((wave_number - 1) - 1) * enemies_increase_per_wave
    IN  IF is_boss_wave(wave_number)
        THEN Max(prev_wave_count, enemy_count \div 2)
        ELSE enemy_count

get_spawn_interval(wave_number) ==
    Max(base_spawn_interval - (wave_number - 1) * spawn_interval_decrease,
        min_spawn_interval)

is_wave_complete(wm) == wm.enemies_remaining <= 0 /\ wm.wave_in_progress

\* start_next_wave() at the time ticks.
start_next_wave(wm, ticks) ==
    [wm EXCEPT !.current_wave = @ + 1,
               !.wave_in_progress = TRUE,
               !.current_wave_start_time = ticks,
               !.last_enemy_spawn_time = ticks,
               !.enemies_remaining = get_enemy_count_for_wave(wm.current_wave + 1),
               !.spawned = 0]

\* update() that spawns whenever an enemy remains.
WaveManagerUpdateIgnoringInterval(wm, current_time) ==
    IF ~wm.wave_in_progress
    THEN wm
    ELSE IF is_wave_complete(wm)
    THEN [wm EXCEPT !.wave_in_progress = FALSE]
    ELSE IF wm.enemies_remaining > 0
    THEN [wm EXCEPT !.spawned = @ + 1,
                    !.last_enemy_spawn_time = current_time,
                    !.enemies_remaining = @ - 1]
    ELSE wm

\* WaveManager.update(current_time); _spawn_enemy hands one enemy (the boss, for
\* the first enemy of a boss wave) to the scene.
WaveManagerUpdate(wm, current_time) ==
    IF ~wm.wave_in_progress
    THEN wm
    ELSE IF is_wave_complete(wm)
    THEN [wm EXCEPT !.wave_in_progress = FALSE]
    ELSE IF /\ current_time - wm.last_enemy_spawn_time
                   >= get_spawn_interval(wm.current_wave)
            /\ wm.enemies_remaining > 0
    THEN [wm EXCEPT !.spawned = @ + 1,
                    !.last_enemy_spawn_time = current_time,
                    !.enemies_remaining = @ - 1]
    ELSE wm

-----------------------------------------------------------------------------
(* SpecWave: the scene starts the waves and updates the wave manager *)

MaxWaves == 2           \* SpecWave: the waves started
MaxWaveClock == 24000   \* SpecWave: the last frame time
\* The time between two frames.
FrameTimes == {500, 1000}

InitWave ==
    /\ sprites = <<>>
    /\ IndexIdle
    /\ SystemIdle
    /\ GameIdle

\* GameScene.update when the transition is over: the scene starts the next wave
\* only after the wave manager's wave ended.
StartNextWave ==
    /\ ~wave_manager.wave_in_progress
    /\ wave_manager.current_wave < MaxWaves
    /\ wave_manager' = start_next_wave(wave_manager, clock)
    /\ UNCHANGED <<sprites, indexVars, systemVars, clock, current_health,
                   invincible_timer, invincible_duration, handled, damage_log, ended,
                   death_log, hit_log, window>>

\* GameScene.update of the next frame: wave_manager.update(current_time).
WaveUpdate ==
    \E dt \in FrameTimes :
        /\ clock + dt <= MaxWaveClock
        /\ clock' = clock + dt
        /\ wave_manager' = WaveManagerUpdate(wave_manager, clock + dt)
        /\ UNCHANGED <<sprites, indexVars, systemVars, current_health,
                       invincible_timer, invincible_duration, handled, damage_log,
                       ended, death_log, hit_log, window>>

NextWave == StartNextWave \/ WaveUpdate

SpecWave == InitWave /\ [][NextWave]_vars

\* The step spawns an enemy.
SpawnStep ==
    /\ wave_manager'.current_wave = wave_manager.current_wave
    /\ wave_manager'.spawned = wave_manager.spawned + 1

\* The step starts a wave.
StartStep ==
    /\ wave_manager'.current_wave = wave_manager.current_wave + 1
    /\ wave_manager'.spawned = 0

\* The step spawns nothing.
QuietStep ==
    /\ wave_manager'.current_wave = wave_manager.current_wave
    /\ wave_manager'.spawned = wave_manager.spawned
    /\ wave_manager'.enemies_remaining = wave_manager.enemies_remaining

\* C29: in a wave each update() spawns at most one enemy, and only when the
\* wave's spawn interval has passed since the previous spawn; a spawn lowers
\* enemies_remaining by one; enemies_remaining is never below 0; the wave ends
\* only after get_enemy_count_for_wave(current_wave) spawns, and nothing is
\* spawned after its end until the next start_next_wave().
C29_WaveProtocol ==
    /\ [](wave_manager.enemies_remaining >= 0)
    /\ [][/\ SpawnStep \/ StartStep \/ QuietStep
          /\ SpawnStep =>
                 /\ wave_manager.wave_in_progress
                 /\ clock' - wave_manager.last_enemy_spawn_time
                        >= get_spawn_interval(wave_manager.current_wave)
                 /\ wave_manager'.enemies_remaining = wave_manager.enemies_remaining - 1
          /\ (wave_manager.wave_in_progress /\ ~wave_manager'.wave_in_progress) =>
                 /\ QuietStep
                 /\ wave_manager.spawned = get_enemy_count_for_wave(wave_manager.current_wave)
          /\ ~wave_manager.wave_in_progress => StartStep \/ QuietStep]_vars

\* The second wave has ended after all its enemies were spawned.
C29_Witness ==
    /\ wave_manager.current_wave = 2
    /\ ~wave_manager.wave_in_progress
    /\ wave_manager.spawned = get_enemy_count_for_wave(2)
    /\ wave_manager.last_enemy_spawn_time - wave_manager.current_wave_start_time
           >= get_enemy_count_for_wave(2) * get_spawn_interval(2)

-----------------------------------------------------------------------------
(* SpecWaveCount: get_enemy_count_for_wave called for any wave numbers *)

MaxWaveNumber == 25     \* SpecWaveCount: the largest wave number asked for
WaveNumbers == 1..MaxWaveNumber

InitWaveCount == InitWave

\* get_enemy_count_for_wave(wave_number); the call before it is kept with its
\* result.
GetEnemyCountForWave ==
    \E wave_number \in WaveNumbers :
        /\ handled' = [call |-> "get_enemy_count_for_wave",
                       wave_number |-> wave_number,
                       result |-> get_enemy_count_for_wave(wave_number),
                       before |-> IF handled.call = "get_enemy_count_for_wave"
                                  THEN <<handled.wave_number, handled.result>>
                                  ELSE <<>>]
        /\ UNCHANGED <<sprites, indexVars, systemVars, clock, current_health,
                       invincible_timer, invincible_duration, damage_log, ended,
                       death_log, hit_log, window, wave_manager>>

NextWaveCount == GetEnemyCountForWave

SpecWaveCount == InitWaveCount /\ [][NextWaveCount]_vars

\* C30: for every wave number the enemy count is at most max_enemies_per_wave,
\* and the count of the wave after a wave is not below that wave's count, boss
\* waves included.
C30_CountCappedAndMonotone ==
    handled.call = "get_enemy_count_for_wave" =>
        /\ handled.result <= max_enemies_per_wave
        /\ (handled.before # <<>> /\ handled.wave_number = handled.before[1] + 1) =>
               handled.result >= handled.before[2]

====
